---- MODULE Spec2Model ----
(***************************************************************************)
(* A model of the Plan Ingestion & Orchestration Pipeline of AMA_Pilot     *)
(* (DevHero_App.py, autonomous_app.py, app.py).                            *)
(*                                                                         *)
(* Texts are TLA+ strings handled character by character (Len, SubSeq and  *)
(* \o work on strings in TLC).  Python values are tagged records:          *)
(*   [t |-> "null"]                 None                                   *)
(*   [t |-> "bool", v |-> TRUE]     True / False                           *)
(*   [t |-> "num",  v |-> "11"]     an int, kept as its decimal digits     *)
(*   [t |-> "str",  v |-> "abc"]    a str                                  *)
(*   [t |-> "list", v |-> <<..>>]   a list                                 *)
(*   [t |-> "tuple",v |-> <<..>>]   a tuple                                *)
(*   [t |-> "set",  v |-> {..}]     a set                                  *)
(*   [t |-> "dict", v |-> f]        a dict, f a function from keys (tagged *)
(*                                  values) to values                      *)
(* The parsers cover the characters the modelled inputs are made of:       *)
(* brackets, braces, comma, colon, both quotes, backslash escapes, space,  *)
(* newline, letters, digits; any other character outside a string is a     *)
(* syntax error in all three grammars.                                     *)
(***************************************************************************)
EXTENDS Integers, Sequences, FiniteSets, TLC

(* ------------------------------------------------------------------ *)
(* Character-level helpers                                            *)
(* ------------------------------------------------------------------ *)

\* s[i] as a one-character string ("" past either end)
Ch(s, i) == IF i >= 1 /\ i <= Len(s) THEN SubSeq(s, i, i) ELSE ""

\* s[i:] from the 1-based index i
From(s, i) == SubSeq(s, i, Len(s))

\* Python's \s and str.strip() whitespace, as far as the inputs have it
IsWs(c) == c \in {" ", "\n", "\t", "\r"}

Digits == {"0", "1", "2", "3", "4", "5", "6", "7", "8", "9"}

Lowers == {"a", "b", "c", "d", "e", "f", "g", "h", "i", "j", "k", "l", "m",
           "n", "o", "p", "q", "r", "s", "t", "u", "v", "w", "x", "y", "z"}

Uppers == {"A", "B", "C", "D", "E", "F", "G", "H", "I", "J", "K", "L", "M",
           "N", "O", "P", "Q", "R", "S", "T", "U", "V", "W", "X", "Y", "Z"}

\* a character of an identifier or number run
IsWord(c) == c \in Digits \cup Lowers \cup Uppers \cup {"_"}

\* TRUE iff p occurs in s at index i
At(s, i, p) == i >= 1 /\ i + Len(p) - 1 <= Len(s) /\ SubSeq(s, i, i + Len(p) - 1) = p

\* the least index >= from at which p occurs in s, 0 if none (str.find + 1)
Find(s, p, from) ==
    LET hits == {i \in from..(Len(s) - Len(p) + 1) : At(s, i, p)}
    IN  IF hits = {} THEN 0 ELSE CHOOSE i \in hits : \A k \in hits : i <= k

\* Python's  p in s
Contains(s, p) == Find(s, p, 1) # 0

\* the least index >= i whose character is not whitespace (Len(s)+1 if none)
RECURSIVE SkipWs(_, _)
SkipWs(s, i) ==
    IF i <= Len(s) /\ IsWs(Ch(s, i)) THEN SkipWs(s, i + 1) ELSE i

\* the greatest index <= i whose character is not whitespace (0 if none)
RECURSIVE SkipWsBack(_, _)
SkipWsBack(s, i) ==
    IF i >= 1 /\ IsWs(Ch(s, i)) THEN SkipWsBack(s, i - 1) ELSE i

\* str.strip()
Strip(s) == SubSeq(s, SkipWs(s, 1), SkipWsBack(s, Len(s)))

(* ------------------------------------------------------------------ *)
(* Python values                                                      *)
(* ------------------------------------------------------------------ *)

None == [t |-> "null"]
Bool(b) == [t |-> "bool", v |-> b]
Num(d) == [t |-> "num", v |-> d]
Str(s) == [t |-> "str", v |-> s]
List(q) == [t |-> "list", v |-> q]
Tuple(q) == [t |-> "tuple", v |-> q]
PySet(e) == [t |-> "set", v |-> e]
Dict(f) == [t |-> "dict", v |-> f]

EmptyDict == Dict(<<>>)

\* d[k] = x on a dict's function: a later value replaces an earlier one
Put(f, k, x) == (k :> x) @@ f

\* isinstance(x, list) / isinstance(x, dict)
IsList(x) == x.t = "list"
IsDict(x) == x.t = "dict"

(* ------------------------------------------------------------------ *)
(* The three parsers of the recovery chain                            *)
(* ------------------------------------------------------------------ *)

Fail == [ok |-> FALSE]
Ok(x, i) == [ok |-> TRUE, v |-> x, i |-> i]

\* whitespace between tokens: every grammar skips blanks; a line break is
\* skipped by JSON and JSON5 everywhere and by Python only inside brackets
RECURSIVE SkipBlank(_, _, _)
SkipBlank(s, i, nl) ==
    IF i <= Len(s) /\ (Ch(s, i) \in {" ", "\t"} \/ (nl /\ Ch(s, i) \in {"\n", "\r"}))
    THEN SkipBlank(s, i + 1, nl)
    ELSE i

\* the character a backslash escape stands for in grammar d ("" if invalid)
Unescape(e, d) ==
    CASE e = "n" -> "\n"
      [] e = "t" -> "\t"
      [] e = "r" -> "\r"
      [] e = "\\" -> "\\"
      [] e = "\"" -> "\""
      [] e = "'" -> IF d = "json" THEN "" ELSE "'"
      [] e = "/" -> IF d = "py" THEN "\\/" ELSE "/"
      [] OTHER -> ""

\* the least index >= i whose character is in set cs (Len(s)+1 if none)
RECURSIVE NextOf(_, _, _)
NextOf(s, i, cs) ==
    IF i > Len(s) \/ Ch(s, i) \in cs THEN i ELSE NextOf(s, i + 1, cs)

\* the body of a string literal opened by quote q, from index i on: plain
\* characters up to the next quote, backslash or control character
RECURSIVE StrBody(_, _, _, _, _)
StrBody(s, i, q, d, acc) ==
    LET j == NextOf(s, i, {q, "\\", "\n", "\r", "\t"})
        c == Ch(s, j)
        got == acc \o SubSeq(s, i, j - 1)
    IN  IF j > Len(s) THEN Fail
        ELSE IF c = q THEN Ok(Str(got), j + 1)
        ELSE IF c \in {"\n", "\r"} THEN Fail
        ELSE IF c = "\t"
             THEN IF d = "json" THEN Fail ELSE StrBody(s, j + 1, q, d, got \o c)
        ELSE LET u == Unescape(Ch(s, j + 1), d) IN
             IF u = "" THEN Fail ELSE StrBody(s, j + 2, q, d, got \o u)

IsQuote(c, d) == c = "\"" \/ (c = "'" /\ d # "json")

\* the end (exclusive) of the run of word characters that starts at i
RECURSIVE WordEnd(_, _)
WordEnd(s, i) ==
    IF i <= Len(s) /\ IsWord(Ch(s, i)) THEN WordEnd(s, i + 1) ELSE i

\* a number or a keyword: a run of word characters
ParseWord(s, i, d) ==
    LET e == WordEnd(s, i)
        w == SubSeq(s, i, e - 1)
    IN  IF \A k \in i..(e - 1) : Ch(s, k) \in Digits
        THEN IF Len(w) = 1 \/ Ch(w, 1) # "0" THEN Ok(Num(w), e)
             ELSE IF d = "py" /\ \A k \in i..(e - 1) : Ch(s, k) = "0"
                  THEN Ok(Num("0"), e)
                  ELSE Fail
        ELSE IF d = "py"
             THEN CASE w = "None" -> Ok(None, e)
                    [] w = "True" -> Ok(Bool(TRUE), e)
                    [] w = "False" -> Ok(Bool(FALSE), e)
                    [] OTHER -> Fail
             ELSE CASE w = "null" -> Ok(None, e)
                    [] w = "true" -> Ok(Bool(TRUE), e)
                    [] w = "false" -> Ok(Bool(FALSE), e)
                    [] OTHER -> Fail

\* Python's hash(): lists, dicts and sets are unhashable (TypeError)
RECURSIVE Hashable(_)
Hashable(x) ==
    CASE x.t \in {"list", "dict", "set"} -> FALSE
      [] x.t = "tuple" -> \A k \in 1..Len(x.v) : Hashable(x.v[k])
      [] OTHER -> TRUE

\* The recursive-descent parser shared by the three grammars, one mode m per
\* syntactic category; nl: a line break counts as a blank; acc: what the
\* mode has collected so far
\*   value    one value at index i
\*   strings  one string literal and, in Python, the adjacent literals
\*            concatenated to it
\*   list     the elements of a list after its opening bracket
\*   key      a dict key: a string in JSON, a string or identifier in JSON5,
\*            any hashable value in Python
\*   dict     the entries of a dict after its opening brace
\*   set      the elements of a Python set display after its opening brace
RECURSIVE Parse(_, _, _, _, _, _)
Parse(m, s, i, d, nl, acc) ==
    CASE m = "value" ->
            LET c == Ch(s, i)
                a == SkipBlank(s, i + 1, TRUE)
            IN  CASE c = "[" ->
                        IF Ch(s, a) = "]" THEN Ok(List(<<>>), a + 1)
                        ELSE Parse("list", s, a, d, TRUE, <<>>)
                  [] c = "{" ->
                        IF Ch(s, a) = "}" THEN Ok(EmptyDict, a + 1)
                        ELSE IF d = "py"
                             THEN LET key == Parse("value", s, a, d, TRUE, <<>>) IN
                                  IF key.ok /\ Ch(s, SkipBlank(s, key.i, TRUE)) \in {",", "}"}
                                  THEN Parse("set", s, a, d, TRUE, {})
                                  ELSE Parse("dict", s, a, d, TRUE, <<>>)
                             ELSE Parse("dict", s, a, d, TRUE, <<>>)
                  [] IsQuote(c, d) -> Parse("strings", s, i, d, nl, "")
                  [] IsWord(c) -> ParseWord(s, i, d)
                  [] OTHER -> Fail
      [] m = "strings" ->
            LET r == StrBody(s, i + 1, Ch(s, i), d, "") IN
            IF ~r.ok THEN Fail
            ELSE LET k == SkipBlank(s, r.i, nl) IN
                 IF d = "py" /\ IsQuote(Ch(s, k), d)
                 THEN Parse("strings", s, k, d, nl, acc \o r.v.v)
                 ELSE Ok(Str(acc \o r.v.v), r.i)
      [] m = "list" ->
            LET r == Parse("value", s, i, d, TRUE, <<>>) IN
            IF ~r.ok THEN Fail
            ELSE LET j == SkipBlank(s, r.i, TRUE)
                     k == SkipBlank(s, j + 1, TRUE)
                 IN  CASE Ch(s, j) = "]" -> Ok(List(Append(acc, r.v)), j + 1)
                       [] Ch(s, j) = "," ->
                            IF Ch(s, k) = "]"
                            THEN IF d = "json" THEN Fail
                                 ELSE Ok(List(Append(acc, r.v)), k + 1)
                            ELSE Parse("list", s, k, d, TRUE, Append(acc, r.v))
                       [] OTHER -> Fail
      [] m = "key" ->
            CASE d = "py" ->
                    LET r == Parse("value", s, i, d, TRUE, <<>>) IN
                    IF r.ok /\ Hashable(r.v) THEN r ELSE Fail
              [] IsQuote(Ch(s, i), d) -> Parse("strings", s, i, d, TRUE, "")
              [] d = "json5" /\ Ch(s, i) \in Lowers \cup Uppers ->
                    Ok(Str(SubSeq(s, i, WordEnd(s, i) - 1)), WordEnd(s, i))
              [] OTHER -> Fail
      [] m = "dict" ->
            LET key == Parse("key", s, i, d, TRUE, <<>>) IN
            IF ~key.ok THEN Fail
            ELSE LET c == SkipBlank(s, key.i, TRUE) IN
                 IF Ch(s, c) # ":" THEN Fail
                 ELSE LET r == Parse("value", s, SkipBlank(s, c + 1, TRUE), d, TRUE, <<>>) IN
                      IF ~r.ok THEN Fail
                      ELSE LET j == SkipBlank(s, r.i, TRUE)
                               k == SkipBlank(s, j + 1, TRUE)
                               f == Put(acc, key.v, r.v)
                           IN  CASE Ch(s, j) = "}" -> Ok(Dict(f), j + 1)
                                 [] Ch(s, j) = "," ->
                                      IF Ch(s, k) = "}"
                                      THEN IF d = "json" THEN Fail ELSE Ok(Dict(f), k + 1)
                                      ELSE Parse("dict", s, k, d, TRUE, f)
                                 [] OTHER -> Fail
      [] m = "set" ->
            LET r == Parse("value", s, i, d, TRUE, <<>>) IN
            IF ~r.ok \/ ~Hashable(r.v) THEN Fail
            ELSE LET j == SkipBlank(s, r.i, TRUE)
                     k == SkipBlank(s, j + 1, TRUE)
                 IN  CASE Ch(s, j) = "}" -> Ok(PySet(acc \cup {r.v}), j + 1)
                       [] Ch(s, j) = "," ->
                            IF Ch(s, k) = "}" THEN Ok(PySet(acc \cup {r.v}), k + 1)
                            ELSE Parse("set", s, k, d, TRUE, acc \cup {r.v})
                       [] OTHER -> Fail

\* one value of grammar d at index i
ParseValue(s, i, d, nl) == Parse("value", s, i, d, nl, <<>>)

\* json.loads(s) and json5.loads(s): one value between optional whitespace
Loads(s, d) ==
    LET r == ParseValue(s, SkipBlank(s, 1, TRUE), d, TRUE) IN
    IF r.ok /\ SkipBlank(s, r.i, TRUE) > Len(s) THEN [ok |-> TRUE, v |-> r.v] ELSE Fail

json_loads(s) == Loads(s, "json")

json5_loads(s) == Loads(s, "json5")

\* the first character of the first logical line of a Python source: the
\* text is lstripped, blank lines are skipped, and the first line that is
\* not blank must not be indented (0: IndentationError)
RECURSIVE PyFirstLine(_, _)
PyFirstLine(s, i) ==
    IF Ch(s, i) # "\n" THEN i
    ELSE LET j == SkipBlank(s, i + 1, FALSE) IN
         IF j > Len(s) THEN j
         ELSE IF Ch(s, j) = "\n" THEN PyFirstLine(s, j)
         ELSE IF j > i + 1 THEN 0 ELSE j

\* what may follow a top-level Python expression: blanks, then nothing or a
\* line break followed by blank lines, of which only an empty one may lack
\* its line break (a last line of blanks alone is an IndentationError)
RECURSIVE PyBlankLines(_, _)
PyBlankLines(s, i) ==
    LET k == SkipBlank(s, i, FALSE) IN
    IF k > Len(s) THEN k = i
    ELSE Ch(s, k) = "\n" /\ PyBlankLines(s, k + 1)

PyTail(s, i) ==
    LET j == SkipBlank(s, i, FALSE) IN
    j > Len(s) \/ (Ch(s, j) = "\n" /\ PyBlankLines(s, j + 1))

\* the comma-separated expressions of a top-level tuple, after the first comma
RECURSIVE PyTupleRest(_, _, _)
PyTupleRest(s, i, acc) ==
    IF PyTail(s, i) THEN [ok |-> TRUE, v |-> Tuple(acc)]
    ELSE LET r == ParseValue(s, i, "py", FALSE) IN
         IF ~r.ok THEN Fail
         ELSE LET j == SkipBlank(s, r.i, FALSE) IN
              IF Ch(s, j) = ","
              THEN PyTupleRest(s, SkipBlank(s, j + 1, FALSE), Append(acc, r.v))
              ELSE IF PyTail(s, j)
                   THEN [ok |-> TRUE, v |-> Tuple(Append(acc, r.v))]
                   ELSE Fail

\* ast.literal_eval(s): a Python literal expression (a bare tuple included)
literal_eval(s) ==
    LET i == PyFirstLine(s, SkipBlank(s, 1, FALSE))
        r == ParseValue(s, i, "py", FALSE)
    IN  IF i = 0 \/ ~r.ok THEN Fail
        ELSE LET j == SkipBlank(s, r.i, FALSE) IN
             IF Ch(s, j) = ","
             THEN PyTupleRest(s, SkipBlank(s, j + 1, FALSE), <<r.v>>)
             ELSE IF PyTail(s, j)
                  THEN [ok |-> TRUE, v |-> r.v]
                  ELSE Fail

(* ------------------------------------------------------------------ *)
(* Fence extraction and repair                                        *)
(* ------------------------------------------------------------------ *)

\* A TLA+ string cannot hold a backtick: the character ^ stands for it in
\* every text of the model, and occurs in no text otherwise.
Backtick == "^"

Fence == Backtick \o Backtick \o Backtick

\* re.search of the fence pattern (three backticks, an optional json tag, a
\* lazy group, three backticks; DOTALL): the leftmost opening fence, its tag
\* consumed, and the group up to the nearest closing fence
FenceSearch(s) ==
    LET i == Find(s, Fence, 1)
        j == IF At(s, i + Len(Fence), "json")
             THEN i + Len(Fence) + Len("json") ELSE i + Len(Fence)
        k == Find(s, Fence, j)
    IN  IF i = 0 \/ k = 0 THEN [found |-> FALSE, group |-> ""]
        ELSE [found |-> TRUE, group |-> SubSeq(s, j, k - 1)]

\* the first re.sub of safe_json_repair: a quote, whitespace holding a line
\* break, a quote  ->  quote, space, quote
RECURSIVE SubNewline(_, _)
SubNewline(s, i) ==
    LET hits == {k \in i..Len(s) :
                    /\ Ch(s, k) = "\""
                    /\ Ch(s, SkipWs(s, k + 1)) = "\""
                    /\ Contains(SubSeq(s, k + 1, SkipWs(s, k + 1) - 1), "\n")}
        m == CHOOSE k \in hits : \A h \in hits : k <= h
    IN  IF hits = {} THEN From(s, i)
        ELSE SubSeq(s, i, m - 1) \o "\" \"" \o SubNewline(s, SkipWs(s, m + 1) + 1)

\* the second re.sub of safe_json_repair: a comma, whitespace, a closing
\* brace or bracket  ->  the whitespace and the closer
RECURSIVE SubTrailingComma(_, _)
SubTrailingComma(s, i) ==
    LET hits == {k \in i..Len(s) :
                    Ch(s, k) = "," /\ Ch(s, SkipWs(s, k + 1)) \in {"}", "]"}}
        m == CHOOSE k \in hits : \A h \in hits : k <= h
    IN  IF hits = {} THEN From(s, i)
        ELSE SubSeq(s, i, m - 1) \o SubSeq(s, m + 1, SkipWs(s, m + 1))
               \o SubTrailingComma(s, SkipWs(s, m + 1) + 1)

safe_json_repair(text) == SubTrailingComma(SubNewline(text, 1), 1)

(* ------------------------------------------------------------------ *)
(* Plan records                                                       *)
(* ------------------------------------------------------------------ *)

\* a list of str values from a sequence of strings
StrList(q) == List([k \in 1..Len(q) |-> Str(q[k])])

\* the dict {"agent": a, "task": k, "tools": tl, "plan": p} of values
Item(a, k, tl, p) ==
    Dict(Put(Put(Put(Put(<<>>, Str("agent"), a), Str("task"), k), Str("tools"), tl),
             Str("plan"), p))

\* the same dict from a record of strings and a sequence of tool names
ItemOf(r) == Item(Str(r.agent), Str(r.task), StrList(r.tools), Str(r.plan))

\* the list of dicts of a sequence of such records
PlanOf(q) == List([k \in 1..Len(q) |-> ItemOf(q[k])])

(* ------------------------------------------------------------------ *)
(* Inputs of Structured-Text Recovery                                 *)
(* ------------------------------------------------------------------ *)

\* the longest free text, in tokens
MaxTokens == 3

\* the longest serialised record list, in records
MaxItems == 2

\* the lexemes free texts are made of
Tokens == {"[", "]", "{", "}", ",", "\"a\"", "'a'", "1", "null", "\n", Fence}

RECURSIVE TextsUpTo(_)
TextsUpTo(n) ==
    IF n = 0 THEN {""}
    ELSE LET shorter == TextsUpTo(n - 1) IN
         shorter \cup {p \o k : p \in shorter, k \in Tokens}

FreeTexts == TextsUpTo(MaxTokens)

\* what json.dumps writes for a str: quotes, backslashes and line breaks escaped
RECURSIVE Escaped(_, _)
Escaped(s, i) ==
    LET j == NextOf(s, i, {"\"", "\\", "\n"}) IN
    IF j > Len(s) THEN From(s, i)
    ELSE SubSeq(s, i, j - 1)
           \o (CASE Ch(s, j) = "\"" -> "\\\""
                 [] Ch(s, j) = "\\" -> "\\\\"
                 [] Ch(s, j) = "\n" -> "\\n")
           \o Escaped(s, j + 1)

DumpsStr(s) == "\"" \o Escaped(s, 1) \o "\""

\* ", ".join(q) for a sequence of strings, with separator sep
RECURSIVE Join(_, _)
Join(q, sep) ==
    IF q = <<>> THEN ""
    ELSE IF Len(q) = 1 THEN q[1]
    ELSE q[1] \o sep \o Join(Tail(q), sep)

\* json.dumps of one plan record and of a list of them
DumpsItem(r) ==
    "{\"agent\": " \o DumpsStr(r.agent) \o ", \"task\": " \o DumpsStr(r.task)
      \o ", \"tools\": [" \o Join([k \in 1..Len(r.tools) |-> DumpsStr(r.tools[k])], ", ")
      \o "], \"plan\": " \o DumpsStr(r.plan) \o "}"

Dumps(q) == "[" \o Join([k \in 1..Len(q) |-> DumpsItem(q[k])], ", ") \o "]"

\* the records a model response is serialised from: string values that hold
\* a comma before a closing bracket or brace, and a quote, line break, quote
Records ==
    {[agent |-> "System Architect", task |-> "Design",
      tools |-> <<"React", "Node.js">>, plan |-> "Use [REST], then test"],
     [agent |-> "System Architect", task |-> "a,]",
      tools |-> <<>>, plan |-> ""],
     [agent |-> "UI Developer", task |-> "x, }y",
      tools |-> <<"React">>, plan |-> "Build {forms}"],
     [agent |-> "QA / Testing Engineer", task |-> "q\"\n\"z",
      tools |-> <<>>, plan |-> "Test"]}

RECURSIVE PlansUpTo(_)
PlansUpTo(n) ==
    IF n = 0 THEN {<<>>}
    ELSE LET shorter == PlansUpTo(n - 1) IN
         shorter \cup {Append(p, r) : p \in shorter, r \in Records}

RecordLists == PlansUpTo(MaxItems)

\* a well-formed fenced block around a serialisation, with or without prose
\* before it and the json tag
Fenced(w, body) ==
    CASE w = "tagged" -> Fence \o "json\n" \o body \o "\n" \o Fence
      [] w = "prose"  -> "Here is the plan:\n" \o Fence \o "json\n" \o body \o "\n" \o Fence
      [] w = "bare"   -> Fence \o "\n" \o body \o "\n" \o Fence

Wraps == {"tagged", "prose", "bare"}

\* the scenario texts of the specification: a trailing comma in a fenced
\* block, plain prose, a fenced block that holds prose
ScenarioTexts ==
    {"Here is the plan:\n" \o Fence
        \o "json\n[{\"agent\":\"Manager\",\"task\":\"x\",\"tools\":[],\"plan\":\"y\",}]\n" \o Fence,
     "Build me a login page",
     "Sorry:\n" \o Fence \o "\nno plan, today\n" \o Fence,
     "{\"agents\": [{\"role\": \"UI Developer\"}]}",
     "{agent: 'Manager', tools: ['a', 'b',],}",
     "[{\"agent\": \"Manager\",\n  \"plan\": \"one\n\"\n}]"}


(* ------------------------------------------------------------------ *)
(* State                                                              *)
(* ------------------------------------------------------------------ *)

VARIABLES
    \* Structured-Text Recovery: one call of parse_json_response
    app,         \* the file whose parse_json_response runs
    given,       \* the text the caller passed
    origin,      \* the record list and wrap the text was serialised from, if any
    raw_text,    \* the local variable raw_text
    json5,       \* TRUE iff the optional json5 module was imported
    pc,          \* the next stage of the call
    tried,       \* the stages run so far, in order
    failed,      \* the parsers among them that raised
    via,         \* the stage whose return statement returned
    result,      \* the value returned (None until pc = "returned")
    \* Schema Normalizer: enforce_plan_structure applied once and twice
    norm_variant,  \* the file whose enforce_plan_structure runs
    norm_input,    \* the recovered value passed to the first call
    norm_once,     \* the value the first call returned
    norm_twice,    \* the value the call on norm_once returned
    norm_pc,
    \* Analyze Request of DevHero_App.py
    user_prompt,      \* the text area's content
    last_user_request,  \* st.session_state.last_user_request
    raw,              \* raw_result.raw, the manager's response
    plan,             \* the local variable plan of manager_suggests_plan
    normalized_plan,  \* plan as enforce_plan_structure returned it
    raw_plan,         \* plan as manager_suggests_plan returned it
    session_plan,     \* st.session_state.plan
    an_pc,
    \* Role Registry of autonomous_app.py
    dynamic_agents,   \* role name -> reference to an Agent
    heap,             \* the Agent objects, a reference being an index
    last_call,        \* the arguments and the result of the latest call
    first_seen,       \* role name -> what its first resolution returned
    \* one browser session of a script: Analyze Request and Run Agents
    script,     \* the file the session runs
    typed,      \* the text area's content at the latest click
    st_plan,    \* st.session_state.plan (None while the key is absent)
    st_last,    \* st.session_state.last_user_request (DevHero_App.py)
    clicks,     \* the button clicks so far
    ui,         \* what the handler of the latest click did
    \* Output Renderer: one call of render_agent_output
    render_script,   \* the file whose render_agent_output runs
    render_request,  \* st.session_state.get("last_user_request", "")
    agent_output,    \* the argument: agent, raw and summary
    calls            \* the list of st.info, st.markdown and st.code calls made

recVars == <<app, given, origin, raw_text, json5, pc, tried, failed, via, result>>

normVars == <<norm_variant, norm_input, norm_once, norm_twice, norm_pc>>

anaVars == <<user_prompt, last_user_request, raw, plan, normalized_plan, raw_plan, session_plan, an_pc>>

regVars == <<dynamic_agents, heap, last_call, first_seen>>

sesVars == <<script, typed, st_plan, st_last, clicks, ui>>

rendVars == <<render_script, render_request, agent_output, calls>>

vars == <<recVars, normVars, anaVars, regVars, sesVars, rendVars>>

NoOrigin == [kind |-> "text"]

\* the components a specification does not exercise stay as they start
RecoveryIdle ==
    /\ app = "DevHero" /\ given = "" /\ origin = NoOrigin /\ raw_text = ""
    /\ pc = "off" /\ tried = <<>> /\ failed = {}
    /\ via = "none" /\ result = None

RecoveryOff == RecoveryIdle /\ json5 = FALSE

NormalizerOff ==
    /\ norm_variant = "DevHero" /\ norm_input = None /\ norm_once = None
    /\ norm_twice = None /\ norm_pc = "off"

AnalyzeOff ==
    /\ user_prompt = "" /\ last_user_request = None /\ raw = "" /\ plan = None /\ normalized_plan = None
    /\ raw_plan = None /\ session_plan = None /\ an_pc = "off"

RegistryOff ==
    /\ dynamic_agents = <<>> /\ heap = <<>> /\ last_call = None
    /\ first_seen = <<>>

SessionOff ==
    /\ script = "DevHero" /\ typed = "" /\ st_plan = None /\ st_last = None
    /\ clicks = 0 /\ ui = None

RendererOff ==
    /\ render_script = "DevHero" /\ render_request = "" /\ agent_output = None
    /\ calls = None

(* ------------------------------------------------------------------ *)
(* Structured-Text Recovery: parse_json_response                      *)
(* ------------------------------------------------------------------ *)

\* the files that define parse_json_response: DevHero_App.py repairs the
\* text before parsing, autonomous_app.py and app.py (the same code) do not
Apps == {"DevHero", "autonomous"}

\* str(e) of the exception ast.literal_eval raised; its wording is Python's
\* and is not modelled
ErrorText == "invalid syntax"

\* control leaves the function by an exception instead of the return
FallbackRaises(text) == [pc |-> "raised", value |-> None]

\* the except branch of the last try: the synthesized one-record list
Fallback(text) ==
    [pc |-> "returned",
     value |-> List(<<Item(Str("Manager"), Str("Could not parse: " \o ErrorText),
                          List(<<>>), Str(text))>>)]

RecoveryInit ==
    /\ app \in Apps
    /\ \/ given \in FreeTexts \cup ScenarioTexts /\ origin = NoOrigin
       \/ \E q \in RecordLists, w \in Wraps :
            /\ given = Fenced(w, Dumps(q))
            /\ origin = [kind |-> "plan", plan |-> q, wrap |-> w]
    /\ raw_text = given
    /\ json5 \in BOOLEAN
    /\ pc = "fence"
    /\ tried = <<>>
    /\ failed = {}
    /\ via = "none"
    /\ result = None
    /\ NormalizerOff /\ AnalyzeOff /\ RegistryOff /\ SessionOff /\ RendererOff

\* match = re.search(...); if match: raw_text = match.group(1).strip()
ExtractFence ==
    /\ pc = "fence"
    /\ raw_text' = IF FenceSearch(raw_text).found
                   THEN Strip(FenceSearch(raw_text).group) ELSE raw_text
    /\ tried' = Append(tried, "fence")
    /\ pc' = IF app = "DevHero" THEN "repair" ELSE "strict"
    /\ UNCHANGED <<app, given, origin, json5, failed, via, result>>
    /\ UNCHANGED <<normVars, anaVars, regVars, sesVars, rendVars>>

\* raw_text = safe_json_repair(raw_text)
Repair ==
    /\ pc = "repair"
    /\ raw_text' = safe_json_repair(raw_text)
    /\ tried' = Append(tried, "repair")
    /\ pc' = "strict"
    /\ UNCHANGED <<app, given, origin, json5, failed, via, result>>
    /\ UNCHANGED <<normVars, anaVars, regVars, sesVars, rendVars>>

\* the permissive parser is never tried
AfterStrictSkips(has_json5) == "literal"

\* the stage that follows a failed strict parse: if json5: ...
AfterStrict(has_json5) == IF has_json5 THEN "permissive" ELSE "literal"

\* return json.loads(raw_text), or the except branch
StrictParse ==
    /\ pc = "strict"
    /\ tried' = Append(tried, "json")
    /\ IF json_loads(raw_text).ok
       THEN /\ result' = json_loads(raw_text).v
            /\ via' = "json"
            /\ pc' = "returned"
            /\ UNCHANGED failed
       ELSE /\ failed' = failed \cup {"json"}
            /\ pc' = AfterStrict(json5)
            /\ UNCHANGED <<via, result>>
    /\ UNCHANGED <<app, given, origin, raw_text, json5>>
    /\ UNCHANGED <<normVars, anaVars, regVars, sesVars, rendVars>>

\* try: return json5.loads(raw_text); except Exception: pass
PermissiveParse ==
    /\ pc = "permissive"
    /\ tried' = Append(tried, "json5")
    /\ IF json5_loads(raw_text).ok
       THEN /\ result' = json5_loads(raw_text).v
            /\ via' = "json5"
            /\ pc' = "returned"
            /\ UNCHANGED failed
       ELSE /\ failed' = failed \cup {"json5"}
            /\ pc' = "literal"
            /\ UNCHANGED <<via, result>>
    /\ UNCHANGED <<app, given, origin, raw_text, json5>>
    /\ UNCHANGED <<normVars, anaVars, regVars, sesVars, rendVars>>

\* try: return ast.literal_eval(raw_text); except Exception as e: return [...]
LiteralEval ==
    /\ pc = "literal"
    /\ IF literal_eval(raw_text).ok
       THEN /\ result' = literal_eval(raw_text).v
            /\ via' = "literal"
            /\ pc' = "returned"
            /\ tried' = Append(tried, "literal")
            /\ UNCHANGED failed
       ELSE /\ failed' = failed \cup {"literal"}
            /\ result' = Fallback(raw_text).value
            /\ via' = "fallback"
            /\ pc' = Fallback(raw_text).pc
            /\ tried' = tried \o <<"literal", "fallback">>
    /\ UNCHANGED <<app, given, origin, raw_text, json5>>
    /\ UNCHANGED <<normVars, anaVars, regVars, sesVars, rendVars>>

RecoveryNext ==
    \/ ExtractFence
    \/ Repair
    \/ StrictParse
    \/ PermissiveParse
    \/ LiteralEval

SpecRecovery == RecoveryInit /\ [][RecoveryNext]_vars

\* parse_json_response as one function of the text: the value the call
\* returns in file a with or without the json5 module
parse_json_response(a, text, has_json5) ==
    LET m == FenceSearch(text)
        inner == IF m.found THEN Strip(m.group) ELSE text
        t == IF a = "DevHero" THEN safe_json_repair(inner) ELSE inner
    IN  IF json_loads(t).ok THEN json_loads(t).v
        ELSE IF has_json5 /\ json5_loads(t).ok THEN json5_loads(t).v
        ELSE IF literal_eval(t).ok THEN literal_eval(t).v
        ELSE Fallback(t).value

(* ------------------------------------------------------------------ *)
(* Recovery: properties                                               *)
(* ------------------------------------------------------------------ *)

Range(q) == {q[k] : k \in 1..Len(q)}

\* a list every element of which is a mapping
IsRecordList(x) == IsList(x) /\ \A k \in 1..Len(x.v) : IsDict(x.v[k])

\* what parser p makes of a text
ParserResult(p, text) ==
    CASE p = "json" -> json_loads(text)
      [] p = "json5" -> json5_loads(text)
      [] p = "literal" -> literal_eval(text)

\* the stages of the chain in file a, in the order the code runs them
Stages(a, has_json5) ==
    <<"fence">> \o (IF a = "DevHero" THEN <<"repair">> ELSE <<>>) \o <<"json">>
      \o (IF has_json5 THEN <<"json5">> ELSE <<>>) \o <<"literal", "fallback">>

\* the text the parsers are handed
Prepared(a, text) ==
    LET m == FenceSearch(text)
        inner == IF m.found THEN Strip(m.group) ELSE text
    IN  IF a = "DevHero" THEN safe_json_repair(inner) ELSE inner

\* C1 as stated: for every input text, parse_json_response returns a
\* non-null sequence whose elements are all mapping-like records, never a
\* bare scalar.
C1_AlwaysRecordList == pc = "returned" => IsRecordList(result)

\* C1, amended: parse_json_response never raises; when no parser accepts the
\* text it returns a list of exactly one mapping, and when a parser accepts
\* the text it returns that parser's value as it is, whatever its type (a
\* number, a string, null, a single mapping, a list of anything).
C1_ReturnsParsedValueOrFallback ==
    /\ pc \in {"fence", "repair", "strict", "permissive", "literal", "returned"}
    /\ pc = "returned" =>
         IF via = "fallback"
         THEN IsRecordList(result) /\ Len(result.v) = 1
         ELSE /\ via \in {"json", "json5", "literal"}
              /\ result = ParserResult(via, raw_text).v

\* C1 witness: a text that parses to a value that is no list of mappings
C1_ScalarReturned ==
    pc = "returned" /\ via = "json" /\ ~IsRecordList(result) /\ result.t \in {"num", "null"}

\* C2 as stated: literal evaluation is attempted only after the permissive
\* parse failed (and the permissive parse only after the strict parse failed).
C2_LiteralOnlyAfterPermissiveFailed ==
    /\ "json5" \in Range(tried) => "json" \in failed
    /\ "literal" \in Range(tried) => "json5" \in failed

\* C2, amended: the stages run in the fixed order fence extraction, repair
\* (DevHero_App.py only), strict parse, permissive parse (only when the
\* optional json5 module is installed), literal evaluation, fallback; every
\* parser sees the fence-extracted and repaired text; a later parser is tried
\* only after every earlier available parser failed on that text; the chain
\* stops at the first parser that accepts, whose value is returned; the
\* fallback record is produced only when every available parser failed.
C2_ChainOrder ==
    LET order == Stages(app, json5)
        parsers == IF json5 THEN <<"json", "json5", "literal">> ELSE <<"json", "literal">>
    IN  /\ Len(tried) <= Len(order)
        /\ tried = SubSeq(order, 1, Len(tried))
        /\ failed \subseteq Range(tried)
        /\ \A p \in failed : ~ParserResult(p, raw_text).ok
        /\ "json" \in Range(tried) => raw_text = Prepared(app, given)
        /\ \A k \in 1..Len(parsers) :
             parsers[k] \in Range(tried) => \A h \in 1..(k - 1) : parsers[h] \in failed
        /\ "fallback" \in Range(tried) => failed = Range(parsers)
        /\ pc = "returned" =>
             /\ via = tried[Len(tried)]
             /\ via # "fallback" =>
                  /\ ParserResult(via, raw_text).ok
                  /\ result = ParserResult(via, raw_text).v
                  /\ failed = Range(tried) \ {"fence", "repair", via}

\* C2 witness: strict and permissive parse failed, literal evaluation returned
C2_LiteralAfterBothFailed ==
    /\ pc = "returned" /\ via = "literal" /\ json5
    /\ failed = {"json", "json5"}

\* C3 as stated: when every parsing attempt fails the result is one record
\* with role Manager, a task that starts with Could not parse:, empty tools
\* and, as plan, the text as given to recovery.
C3_FallbackPlanIsGivenText ==
    (pc = "returned" /\ via = "fallback") =>
        /\ IsRecordList(result) /\ Len(result.v) = 1
        /\ result.v[1].v[Str("agent")] = Str("Manager")
        /\ At(result.v[1].v[Str("task")].v, 1, "Could not parse:")
        /\ result.v[1].v[Str("tools")] = List(<<>>)
        /\ result.v[1].v[Str("plan")] = Str(given)

\* C3 witness: the fallback of a fenced text holds the fence's interior
C3_FallbackPlanIsInterior ==
    /\ pc = "returned" /\ via = "fallback" /\ FenceSearch(given).found
    /\ result.v[1].v[Str("plan")] = Str(raw_text)
    /\ raw_text # given

\* C4 as stated: recovering a well-formed fenced block that holds the
\* serialisation of a record list L yields L, whatever its string values.
C4_RoundTrip ==
    (pc = "returned" /\ app = "DevHero" /\ origin.kind = "plan") =>
        result = PlanOf(origin.plan)

\* C4 witness: a record list whose strings hold no comma before a closer
\* comes back as it was serialised
C4_PlainListRecovered ==
    /\ pc = "returned" /\ app = "DevHero" /\ origin.kind = "plan"
    /\ Len(origin.plan) = 2
    /\ result = PlanOf(origin.plan)

(* ------------------------------------------------------------------ *)
(* Schema Normalizer: enforce_plan_structure                          *)
(* ------------------------------------------------------------------ *)

\* bool(x): Python's truth value
Truthy(x) ==
    CASE x.t = "null" -> FALSE
      [] x.t = "bool" -> x.v
      [] x.t = "num" -> \E k \in 1..Len(x.v) : Ch(x.v, k) # "0"
      [] x.t = "str" -> x.v # ""
      [] x.t \in {"list", "tuple"} -> Len(x.v) > 0
      [] x.t = "set" -> x.v # {}
      [] x.t = "dict" -> DOMAIN x.v # {}

\* a or b
PyOr(a, b) == IF Truthy(a) THEN a ELSE b

\* f.get(key, default) on a dict's function
Get(f, key, default) == IF Str(key) \in DOMAIN f THEN f[Str(key)] ELSE default

\* f.setdefault(key, default)
SetDefault(f, key, default) == IF Str(key) \in DOMAIN f THEN f ELSE Put(f, Str(key), default)

\* repr of a str: single quotes unless the text holds a single quote and no
\* double quote; backslash, the quote in use and control characters escaped
RECURSIVE ReprBody(_, _, _)
ReprBody(s, i, q) ==
    LET j == NextOf(s, i, {q, "\\", "\n", "\t", "\r"}) IN
    IF j > Len(s) THEN From(s, i)
    ELSE SubSeq(s, i, j - 1)
           \o (CASE Ch(s, j) = "\n" -> "\\n"
                 [] Ch(s, j) = "\t" -> "\\t"
                 [] Ch(s, j) = "\r" -> "\\r"
                 [] OTHER -> "\\" \o Ch(s, j))
           \o ReprBody(s, j + 1, q)

ReprStr(s) ==
    LET q == IF Contains(s, "'") /\ ~Contains(s, "\"") THEN "\"" ELSE "'"
    IN  q \o ReprBody(s, 1, q) \o q

\* repr(x) and str(x).  A set or dict of two or more entries is written in
\* an order (hash order, insertion order) the values of the model do not
\* keep: PyRepr is defined up to one entry.
RECURSIVE PyRepr(_)
PyRepr(x) ==
    CASE x.t = "null" -> "None"
      [] x.t = "bool" -> IF x.v THEN "True" ELSE "False"
      [] x.t = "num" -> x.v
      [] x.t = "str" -> ReprStr(x.v)
      [] x.t = "list" -> "[" \o Join([k \in 1..Len(x.v) |-> PyRepr(x.v[k])], ", ") \o "]"
      [] x.t = "tuple" ->
            IF Len(x.v) = 1 THEN "(" \o PyRepr(x.v[1]) \o ",)"
            ELSE "(" \o Join([k \in 1..Len(x.v) |-> PyRepr(x.v[k])], ", ") \o ")"
      [] x.t = "set" /\ x.v = {} -> "set()"
      [] x.t = "set" /\ Cardinality(x.v) = 1 ->
            "{" \o PyRepr(CHOOSE e \in x.v : TRUE) \o "}"
      [] x.t = "dict" /\ DOMAIN x.v = {} -> "{}"
      [] x.t = "dict" /\ Cardinality(DOMAIN x.v) = 1 ->
            LET k == CHOOSE e \in DOMAIN x.v : TRUE IN
            "{" \o PyRepr(k) \o ": " \o PyRepr(x.v[k]) \o "}"

PyStr(x) == IF x.t = "str" THEN x.v ELSE PyRepr(x)

\* the placeholder autonomous_app.py writes where a field is missing (a
\* mis-decoded em dash in the source, kept here as a hyphen)
Dash == "-"

\* the files that define enforce_plan_structure
Variants == {"DevHero", "autonomous", "app"}

\* if isinstance(plan, dict) and "agents" in plan: plan = plan["agents"]
\* (DevHero_App.py only)
Unwrapped(variant, p) ==
    IF variant = "DevHero" /\ IsDict(p) /\ Str("agents") \in DOMAIN p.v
    THEN p.v[Str("agents")] ELSE p

\* a single value is dropped instead of wrapped
AsListDropsSingle(p) == IF IsList(p) THEN p.v ELSE <<>>

\* if not isinstance(plan, list): plan = [plan]
AsList(p) == IF IsList(p) THEN p.v ELSE <<p>>

\* if not isinstance(item, dict): item = {...}
InvalidItem(item) ==
    IF IsDict(item) THEN item
    ELSE Item(Str("Manager"), Str("Invalid item"), List(<<>>), Str(PyStr(item)))

\* the dict appended for one item (a dict) of the iterated list; the
\* setdefault loop that follows in DevHero_App.py finds all four keys set
Mapped(variant, f) ==
    CASE variant = "DevHero" ->
            Item(PyOr(Get(f, "agent", None), Get(f, "role", Str(""))),
                 PyOr(PyOr(Get(f, "task", None), Get(f, "taskDescription", None)),
                      Get(f, "task_description", Str(""))),
                 PyOr(PyOr(PyOr(Get(f, "tools", None), Get(f, "toolsFrameworks", None)),
                           Get(f, "tools_frameworks", None)),
                      List(<<>>)),
                 PyOr(PyOr(Get(f, "plan", None), Get(f, "implementationPlan", None)),
                      Get(f, "implementation_plan", Str(""))))
      [] variant = "autonomous" ->
            Item(PyOr(PyOr(PyOr(Get(f, "agent", None), Get(f, "agent_role", None)),
                           Get(f, "role", None)),
                      Str(Dash)),
                 PyOr(PyOr(Get(f, "task", None), Get(f, "task_description", None)),
                      Str(Dash)),
                 PyOr(PyOr(Get(f, "tools", None), Get(f, "tools_frameworks", None)),
                      List(<<>>)),
                 PyOr(PyOr(Get(f, "plan", None), Get(f, "implementation_plan", None)),
                      Str(Dash)))
      [] variant = "app" ->
            Dict(SetDefault(SetDefault(SetDefault(SetDefault(f,
                    "agent", Str("")), "task", Str("")), "tools", Str("")), "plan", Str("")))

\* enforce_plan_structure(plan) of the given file
enforce_plan_structure(variant, p) ==
    LET items == AsList(Unwrapped(variant, p))
    IN  List([k \in 1..Len(items) |-> Mapped(variant, InvalidItem(items[k]).v)])

\* the longest recovered list, in items
MaxNormLen == 2

\* one-key dict
Only(key, x) == Put(<<>>, Str(key), x)

\* the items a recovered list is made of: complete records, records under
\* alias keys, records whose values are falsy, and values that are no dict
NormItems ==
    {ItemOf([agent |-> "UI Developer", task |-> "Build", tools |-> <<"React">>,
             plan |-> "Use React"]),
     EmptyDict,
     Dict(Only("role", Str("Backend Developer"))),
     Dict(Only("role", None)),
     Dict(Put(Only("agent", Str("")), Str("role"), List(<<>>))),
     Dict(Only("agent_role", Str("QA"))),
     Dict(Only("taskDescription", Str("Test"))),
     Dict(Only("task_description", Num("0"))),
     Dict(Only("tools", Str("React"))),
     Dict(Only("tools_frameworks", StrList(<<"Jest">>))),
     Dict(Only("implementation_plan", EmptyDict)),
     None,
     Num("3"),
     Str("build it"),
     List(<<Num("1"), Str("a")>>)}

RECURSIVE ListsUpTo(_)
ListsUpTo(n) ==
    IF n = 0 THEN {<<>>}
    ELSE LET shorter == ListsUpTo(n - 1) IN
         shorter \cup {Append(q, x) : q \in shorter, x \in NormItems}

\* the recovered values: a list, a single value, a wrapper dict around either
RecoveredValues ==
    LET lists == {List(q) : q \in ListsUpTo(MaxNormLen)}
    IN  lists \cup NormItems \cup {Dict(Only("agents", x)) : x \in lists \cup {Str("none")}}

NormalizerInit ==
    /\ norm_variant \in Variants
    /\ norm_input \in RecoveredValues
    /\ norm_once = None
    /\ norm_twice = None
    /\ norm_pc = "start"
    /\ RecoveryOff /\ AnalyzeOff /\ RegistryOff /\ SessionOff /\ RendererOff

\* plan = enforce_plan_structure(plan) on the recovered value
Normalize ==
    /\ norm_pc = "start"
    /\ norm_once' = enforce_plan_structure(norm_variant, norm_input)
    /\ norm_pc' = "once"
    /\ UNCHANGED <<norm_variant, norm_input, norm_twice>>
    /\ UNCHANGED <<recVars, anaVars, regVars, sesVars, rendVars>>

\* enforce_plan_structure applied to its own output
NormalizeAgain ==
    /\ norm_pc = "once"
    /\ norm_twice' = enforce_plan_structure(norm_variant, norm_once)
    /\ norm_pc' = "twice"
    /\ UNCHANGED <<norm_variant, norm_input, norm_once>>
    /\ UNCHANGED <<recVars, anaVars, regVars, sesVars, rendVars>>

NormalizerNext == Normalize \/ NormalizeAgain

SpecNormalizer == NormalizerInit /\ [][NormalizerNext]_vars

(* ------------------------------------------------------------------ *)
(* Normalizer: properties                                             *)
(* ------------------------------------------------------------------ *)

\* the sequence the normalizer is given: the list itself, the value under
\* agents of a wrapper mapping (unwrapped by DevHero_App.py only), or the
\* single value as a sequence of one
InputSequence(variant, x) ==
    LET y == IF variant = "DevHero" /\ IsDict(x) /\ Str("agents") \in DOMAIN x.v
             THEN x.v[Str("agents")] ELSE x
    IN  IF IsList(y) THEN y.v ELSE <<y>>

FourFields == {Str("agent"), Str("task"), Str("tools"), Str("plan")}

\* the first truthy value among the keys of dict function f, if any
FirstTruthy(f, keys) ==
    LET hits == {k \in 1..Len(keys) : Str(keys[k]) \in DOMAIN f /\ Truthy(f[Str(keys[k])])}
    IN  IF hits = {} THEN None
        ELSE f[Str(keys[CHOOSE k \in hits : \A h \in hits : k <= h])]

C6_Idempotent == norm_pc = "twice" => norm_twice = norm_once

\* C6 witness: an output of DevHero_App.py whose agent is None, not a string
C6_AgentNoneAfterFirstPass ==
    /\ norm_pc = "twice" /\ norm_variant = "DevHero"
    /\ Len(norm_once.v) = 1
    /\ norm_once.v[1].v[Str("agent")] = None
    /\ norm_twice.v[1].v[Str("agent")] = Str("")

\* a PlanItem as the data model types it: agent, task and plan are strs,
\* tools a list of strs
WellTyped(o) ==
    /\ \A key \in {"agent", "task", "plan"} : o.v[Str(key)].t = "str"
    /\ IsList(o.v[Str("tools")])
    /\ \A k \in 1..Len(o.v[Str("tools")].v) : o.v[Str("tools")].v[k].t = "str"

\* C18 as stated: every item enforce_plan_structure returns is typed,
\* whatever the recovered record held: agent, task and plan are strings and
\* tools is a sequence of names, a lone string having become a sequence of
\* one.
C18_ItemsTyped ==
    norm_pc # "start" => \A k \in 1..Len(norm_once.v) : WellTyped(norm_once.v[k])

\* C18 witness: the record whose tools value is the lone string React is
\* returned with tools still that string
C18_LoneStringKept ==
    /\ norm_pc = "once" /\ norm_variant = "DevHero"
    /\ norm_input = List(<<Dict(Only("tools", Str("React")))>>)
    /\ norm_once.v[1].v[Str("tools")] = Str("React")

(* ------------------------------------------------------------------ *)
(* Consistency Enforcer: enforce_stack_consistency (DevHero_App.py)   *)
(* ------------------------------------------------------------------ *)

UpperLetters == "ABCDEFGHIJKLMNOPQRSTUVWXYZ"

LowerLetters == "abcdefghijklmnopqrstuvwxyz"

\* str.lower(), from index i on: the ASCII capitals replaced
RECURSIVE LowerFrom(_, _)
LowerFrom(s, i) ==
    LET j == NextOf(s, i, Uppers) IN
    IF j > Len(s) THEN From(s, i)
    ELSE SubSeq(s, i, j - 1) \o Ch(LowerLetters, Find(UpperLetters, Ch(s, j), 1))
           \o LowerFrom(s, j + 1)

Lower(s) == LowerFrom(s, 1)

\* the if/elif chain on the frontend markers: the label, or None
frontend_stack(user_request) ==
    LET req_lower == Lower(user_request) IN
    CASE Contains(req_lower, "react") -> Str("React.js")
      [] Contains(req_lower, "angular") -> Str("Angular")
      [] Contains(req_lower, "vue") -> Str("Vue.js")
      [] Contains(req_lower, "blazor") -> Str("Blazor")
      [] OTHER -> None

\* the if/elif chain on the backend markers: the label, or None
backend_stack(user_request) ==
    LET req_lower == Lower(user_request) IN
    CASE Contains(req_lower, ".net") \/ Contains(req_lower, "dotnet") -> Str("ASP.NET Core")
      [] Contains(req_lower, "spring boot") -> Str("Spring Boot")
      [] Contains(req_lower, "fastapi") -> Str("FastAPI")
      [] Contains(req_lower, "django") -> Str("Django")
      [] Contains(req_lower, "node") \/ Contains(req_lower, "express") ->
            Str("Node.js / Express")
      [] OTHER -> None

\* the characters of a str, each a str of length one
Chars(s) == [k \in 1..Len(s) |-> Str(Ch(s, k))]

\* what  for t in tools  yields: the items of a list, the characters of a str
Elements(tools) == IF tools.t = "str" THEN Chars(tools.v) ELSE tools.v

\* " ".join(tools) succeeds: tools is a str, or a list whose items are all
\* str (the tools of the modelled responses are lists, strs and numbers)
Joinable(tools) ==
    \/ tools.t = "str"
    \/ tools.t = "list" /\ \A k \in 1..Len(tools.v) : tools.v[k].t = "str"

\* " ".join(tools)
JoinTools(tools) ==
    Join([k \in 1..Len(Elements(tools)) |-> Elements(tools)[k].v], " ")

\* the label counts as present whatever the tools are
PresentAlways(label, tools) == TRUE

\* not (label not in " ".join(item["tools"]))
Present(label, tools) == Contains(JoinTools(tools), label.v)

\* [t for t in tools if t != label]
Without(tools, label) ==
    LET RECURSIVE Keep(_)
        Keep(q) == IF q = <<>> THEN <<>>
                   ELSE IF Head(q) = label THEN Keep(Tail(q))
                   ELSE <<Head(q)>> \o Keep(Tail(q))
    IN  Keep(Elements(tools))

\* one of the two if blocks in the loop body: the label prepended to tools
\* and the note prepended to plan, unless the label is missing or present
Prepend(f, label, side) ==
    IF Truthy(label) /\ ~Present(label, f[Str("tools")])
    THEN [f EXCEPT ![Str("tools")] = List(<<label>> \o Without(f[Str("tools")], label)),
                   ![Str("plan")] = Str("(Adjusted) Use " \o label.v \o " for " \o side
                                        \o ". " \o f[Str("plan")].v)]
    ELSE f

\* the two blocks in the opposite order
BackendThenFrontend(f, frontend, backend) ==
    Prepend(Prepend(f, backend, "backend"), frontend, "frontend")

\* the frontend block, then the backend block
FrontendThenBackend(f, frontend, backend) ==
    Prepend(Prepend(f, frontend, "frontend"), backend, "backend")

\* one if block raises TypeError: its label is set and the join fails, or
\* the label is not in the joined tools and the plan the note is
\* concatenated with is no str
PrependRaises(f, label) ==
    /\ Truthy(label)
    /\ \/ ~Joinable(f[Str("tools")])
       \/ ~Present(label, f[Str("tools")]) /\ f[Str("plan")].t # "str"

\* the loop body raises in its first or in its second block
BodyRaises(f, frontend, backend) ==
    \/ PrependRaises(f, frontend)
    \/ PrependRaises(Prepend(f, frontend, "frontend"), backend)

\* enforce_stack_consistency(user_request, plan) raises instead of returning
EnforceRaises(user_request, p) ==
    \E k \in 1..Len(p.v) :
        /\ p.v[k].v[Str("agent")] = Str("System Architect")
        /\ BodyRaises(p.v[k].v, frontend_stack(user_request), backend_stack(user_request))

\* the loop body applied to every item, whatever its agent
EnforceAnyAgent(user_request, p) ==
    List([k \in 1..Len(p.v) |->
            Dict(FrontendThenBackend(p.v[k].v, frontend_stack(user_request),
                                     backend_stack(user_request)))])

\* the loop body applied to the Backend Developer items as well
EnforceBackendItems(user_request, p) ==
    List([k \in 1..Len(p.v) |->
            IF p.v[k].v[Str("agent")] \in {Str("System Architect"), Str("Backend Developer")}
            THEN Dict(FrontendThenBackend(p.v[k].v, frontend_stack(user_request),
                                          backend_stack(user_request)))
            ELSE p.v[k]])

\* enforce_stack_consistency(user_request, plan)
enforce_stack_consistency(user_request, p) ==
    List([k \in 1..Len(p.v) |->
            IF p.v[k].v[Str("agent")] = Str("System Architect")
            THEN Dict(FrontendThenBackend(p.v[k].v, frontend_stack(user_request),
                                          backend_stack(user_request)))
            ELSE p.v[k]])

(* ------------------------------------------------------------------ *)
(* Policy filters of manager_suggests_plan (DevHero_App.py)           *)
(* ------------------------------------------------------------------ *)

\* the comprehension that drops nothing
KeepAll(p) == p

\* [p for p in plan if not (p["agent"] == "Backend Developer" and not p["tools"])]
DropBackend(p) ==
    LET RECURSIVE Keep(_)
        Keep(q) == IF q = <<>> THEN <<>>
                   ELSE IF /\ Head(q).v[Str("agent")] = Str("Backend Developer")
                           /\ ~Truthy(Head(q).v[Str("tools")])
                        THEN Keep(Tail(q))
                        ELSE <<Head(q)>> \o Keep(Tail(q))
    IN  List(Keep(p.v))

\* any(p["agent"] == role for p in plan)
HasAgent(p, role) == \E k \in 1..Len(p.v) : p.v[k].v[Str("agent")] = Str(role)

\* the synthesized QA item
QAItem ==
    Item(Str("QA / Testing Engineer"),
         Str("Generate automated test cases for the project."),
         StrList(<<"Jest", "Pytest", "xUnit", "JUnit">>),
         Str("Provide a test folder structure, sample tests, and run instructions."))

\* if (has_ui or has_backend) and not has_qa: plan.append({...})
AppendQA(p) ==
    IF /\ HasAgent(p, "UI Developer") \/ HasAgent(p, "Backend Developer")
       /\ ~HasAgent(p, "QA / Testing Engineer")
    THEN List(Append(p.v, QAItem))
    ELSE p

(* ------------------------------------------------------------------ *)
(* Analyze Request (DevHero_App.py)                                   *)
(* ------------------------------------------------------------------ *)

\* the longest plan a response of the manager serialises, in items
MaxPlanItems == 2

Scenario == "Create a login page with Angular frontend and ASP.NET Core backend"

\* what the user types: requests that name both stacks, one stack, none,
\* and a blank request
Requests ==
    {Scenario,
     "Build a React app with Node",
     "A Vue page",
     "An Express API, later Django",
     "Make a todo list",
     "  "}

\* the records the manager's response is serialised from
PlanRecords ==
    {[agent |-> "System Architect", task |-> "Design", tools |-> <<"React", "Node.js">>,
      plan |-> "Use REST"],
     [agent |-> "System Architect", task |-> "Design", tools |-> <<>>, plan |-> ""],
     [agent |-> "System Architect", task |-> "Design", tools |-> <<"Angular CLI">>,
      plan |-> "Scaffold"],
     [agent |-> "System Architect", task |-> "Design",
      tools |-> <<"Angular", "Angular", "ASP.NET", "Core">>, plan |-> "Layers"],
     [agent |-> "UI Developer", task |-> "Build the page", tools |-> <<"Angular">>,
      plan |-> "Forms"],
     [agent |-> "Backend Developer", task |-> "Build the API", tools |-> <<>>,
      plan |-> "None"],
     [agent |-> "Backend Developer", task |-> "Build the API",
      tools |-> <<"ASP.NET Core">>, plan |-> "Controllers"],
     [agent |-> "QA / Testing Engineer", task |-> "Test", tools |-> <<"Jest">>,
      plan |-> "Unit tests"]}

RECURSIVE PlanListsUpTo(_)
PlanListsUpTo(n) ==
    IF n = 0 THEN {<<>>}
    ELSE LET shorter == PlanListsUpTo(n - 1) IN
         shorter \cup {Append(q, r) : q \in shorter, r \in PlanRecords}

\* raw_result.raw: a fenced serialisation, prose, or a JSON5 text
Responses ==
    {Fenced("tagged", Dumps(q)) : q \in PlanListsUpTo(MaxPlanItems)}
      \cup {"I cannot help with that.",
            "[{agent: 'UI Developer', tools: ['Vue']}]",
            "[{\"agent\": \"System Architect\", \"task\": \"Design\", \"tools\": \"React\", \"plan\": \"Use REST\"}]",
            "[{\"agent\": \"System Architect\", \"task\": \"Design\", \"tools\": 5, \"plan\": \"Use REST\"}]",
            "[{\"agent\": \"System Architect\", \"task\": \"Design\", \"tools\": [], \"plan\": 7}]",
            "[]"}

AnalyzeInit ==
    /\ user_prompt \in Requests
    /\ last_user_request = None
    /\ raw = ""
    /\ plan = None
    /\ normalized_plan = None
    /\ raw_plan = None
    /\ session_plan = None
    /\ an_pc = "idle"
    /\ RecoveryIdle /\ json5 \in BOOLEAN
    /\ NormalizerOff /\ RegistryOff /\ SessionOff /\ RendererOff

\* if st.button("Analyze Request"): if user_prompt.strip(): ...
AnalyzeClick ==
    /\ an_pc = "idle"
    /\ IF Strip(user_prompt) # ""
       THEN /\ last_user_request' = Str(user_prompt)
            /\ an_pc' = "kickoff"
       ELSE /\ an_pc' = "warned"
            /\ UNCHANGED last_user_request
    /\ UNCHANGED <<user_prompt, raw, plan, normalized_plan, raw_plan, session_plan>>
    /\ UNCHANGED <<recVars, normVars, regVars, sesVars, rendVars>>

\* manager_suggests_plan: raw_result = crew.kickoff()
Kickoff ==
    /\ an_pc = "kickoff"
    /\ raw' \in Responses
    /\ an_pc' = "parse"
    /\ UNCHANGED <<user_prompt, last_user_request, plan, normalized_plan, raw_plan,
                   session_plan>>
    /\ UNCHANGED <<recVars, normVars, regVars, sesVars, rendVars>>

\* manager_suggests_plan: plan = parse_json_response(raw_result.raw)
ParseResponse ==
    /\ an_pc = "parse"
    /\ plan' = parse_json_response("DevHero", raw, json5)
    /\ an_pc' = "normalize"
    /\ UNCHANGED <<user_prompt, last_user_request, raw, normalized_plan, raw_plan,
                   session_plan>>
    /\ UNCHANGED <<recVars, normVars, regVars, sesVars, rendVars>>

\* manager_suggests_plan: plan = enforce_plan_structure(plan)
NormalizePlan ==
    /\ an_pc = "normalize"
    /\ plan' = enforce_plan_structure("DevHero", plan)
    /\ normalized_plan' = plan'
    /\ an_pc' = "drop"
    /\ UNCHANGED <<user_prompt, last_user_request, raw, raw_plan, session_plan>>
    /\ UNCHANGED <<recVars, normVars, regVars, sesVars, rendVars>>

\* manager_suggests_plan: the backend-drop comprehension
DropBackendStep ==
    /\ an_pc = "drop"
    /\ plan' = DropBackend(plan)
    /\ an_pc' = "qa"
    /\ UNCHANGED <<user_prompt, last_user_request, raw, normalized_plan, raw_plan,
                   session_plan>>
    /\ UNCHANGED <<recVars, normVars, regVars, sesVars, rendVars>>

\* manager_suggests_plan: the QA append and return plan; raw_plan keeps the
\* value returned (enforce_stack_consistency later changes its items in place)
AppendQAStep ==
    /\ an_pc = "qa"
    /\ plan' = AppendQA(plan)
    /\ raw_plan' = plan'
    /\ an_pc' = "enforce"
    /\ UNCHANGED <<user_prompt, last_user_request, raw, normalized_plan, session_plan>>
    /\ UNCHANGED <<recVars, normVars, regVars, sesVars, rendVars>>

\* st.session_state.plan = enforce_stack_consistency(user_prompt, raw_plan)
EnforceStack ==
    /\ an_pc = "enforce"
    /\ IF EnforceRaises(user_prompt, raw_plan)
       THEN /\ an_pc' = "raised"
            /\ UNCHANGED session_plan
       ELSE /\ session_plan' = enforce_stack_consistency(user_prompt, raw_plan)
            /\ an_pc' = "shown"
    /\ UNCHANGED <<user_prompt, last_user_request, raw, plan, normalized_plan, raw_plan>>
    /\ UNCHANGED <<recVars, normVars, regVars, sesVars, rendVars>>

AnalyzeNext ==
    \/ AnalyzeClick
    \/ Kickoff
    \/ ParseResponse
    \/ NormalizePlan
    \/ DropBackendStep
    \/ AppendQAStep
    \/ EnforceStack

SpecAnalyze == AnalyzeInit /\ [][AnalyzeNext]_vars

(* ------------------------------------------------------------------ *)
(* Analyze Request: properties                                        *)
(* ------------------------------------------------------------------ *)

\* the labels detected in the request
Detected(request) ==
    {l \in {frontend_stack(request), backend_stack(request)} : l # None}

\* the indices of the architecture items of a plan
Architects(p) == {k \in 1..Len(p.v) : p.v[k].v[Str("agent")] = Str("System Architect")}

ToolsOf(p, k) == p.v[k].v[Str("tools")]

PlanTextOf(p, k) == p.v[k].v[Str("plan")].v

\* how often x occurs in sequence q
Count(q, x) == Cardinality({k \in 1..Len(q) : q[k] = x})

\* C7 as stated: after enforce_stack_consistency the tools of every
\* architecture item contain each detected label as an element, and no label
\* occurs twice in adjacent positions.
C7_LabelIsElement ==
    an_pc = "shown" =>
        \A k \in Architects(session_plan) : \A l \in Detected(user_prompt) :
            LET tools == ToolsOf(session_plan, k).v IN
            /\ l \in Range(tools)
            /\ \A h \in 1..(Len(tools) - 1) : ~(tools[h] = l /\ tools[h + 1] = l)

\* C7, amended: after enforce_stack_consistency the space-joined tools text
\* of every architecture item contains each detected label as a substring;
\* a label that was no substring of the joined text before is the element
\* enforcement prepended and occurs exactly once; a label that was a
\* substring before (as an element, as part of a longer tool name or across
\* two tool names) is not added, and the entries that held it, duplicates
\* included, stay as they were.
C7_LabelInJoinedTools ==
    an_pc = "shown" =>
        /\ Len(session_plan.v) = Len(raw_plan.v)
        /\ \A k \in Architects(session_plan) : \A l \in Detected(user_prompt) :
             LET before == ToolsOf(raw_plan, k)
                 after == ToolsOf(session_plan, k)
             IN  /\ Contains(JoinTools(after), l.v)
                 /\ IF Contains(JoinTools(before), l.v)
                    THEN Count(after.v, l) = Count(before.v, l)
                    ELSE Count(after.v, l) = 1

\* C7 witness: Angular is detected and is part of a longer tool name only,
\* so the tools of the architecture item stay without the element Angular
C7_LabelOnlyAsSubstring ==
    /\ an_pc = "shown"
    /\ frontend_stack(user_prompt) = Str("Angular")
    /\ \E k \in Architects(session_plan) :
         /\ Str("Angular CLI") \in Range(ToolsOf(session_plan, k).v)
         /\ Str("Angular") \notin Range(ToolsOf(session_plan, k).v)
         /\ backend_stack(user_prompt) \in Range(ToolsOf(session_plan, k).v)

\* C8: when a frontend and a backend label are detected and the tools of an
\* architecture item contain neither, its tools become the backend label,
\* the frontend label, then the original tools in order, and its plan the
\* backend note, the frontend note, then the original plan text; the
\* scenario request yields Angular and ASP.NET Core, and tools React,
\* Node.js become ASP.NET Core, Angular, React, Node.js.
C8_BothLabelsPrepended ==
    an_pc = "shown" =>
        LET fe == frontend_stack(user_prompt)
            be == backend_stack(user_prompt)
        IN  /\ user_prompt = Scenario => fe = Str("Angular") /\ be = Str("ASP.NET Core")
            /\ \A k \in Architects(raw_plan) :
                 LET before == ToolsOf(raw_plan, k) IN
                 /\ (/\ fe # None /\ be # None
                     /\ ~Contains(JoinTools(before), fe.v)
                     /\ ~Contains(JoinTools(before), be.v)) =>
                        /\ ToolsOf(session_plan, k) = List(<<be, fe>> \o Elements(before))
                        /\ PlanTextOf(session_plan, k) =
                              "(Adjusted) Use " \o be.v \o " for backend. "
                                \o "(Adjusted) Use " \o fe.v \o " for frontend. "
                                \o PlanTextOf(raw_plan, k)
                 /\ (user_prompt = Scenario /\ before = StrList(<<"React", "Node.js">>)) =>
                        ToolsOf(session_plan, k) =
                            StrList(<<"ASP.NET Core", "Angular", "React", "Node.js">>)

\* C8 witness: the scenario request with an architecture item whose tools
\* were React, Node.js
C8_ScenarioEnforced ==
    /\ an_pc = "shown" /\ user_prompt = Scenario
    /\ \E k \in Architects(raw_plan) :
         /\ ToolsOf(raw_plan, k) = StrList(<<"React", "Node.js">>)
         /\ ToolsOf(session_plan, k) =
               StrList(<<"ASP.NET Core", "Angular", "React", "Node.js">>)
         /\ PlanTextOf(session_plan, k) =
               "(Adjusted) Use ASP.NET Core for backend. (Adjusted) Use Angular for frontend. Use REST"

IsAgent(x, role) == x.v[Str("agent")] = Str(role)

\* the items of sequence q that are no Backend Developer item with empty tools
RECURSIVE NotEmptyBackend(_)
NotEmptyBackend(q) ==
    IF q = <<>> THEN <<>>
    ELSE IF IsAgent(Head(q), "Backend Developer") /\ Head(q).v[Str("tools")] = List(<<>>)
         THEN NotEmptyBackend(Tail(q))
         ELSE <<Head(q)>> \o NotEmptyBackend(Tail(q))

\* C9: after the policy filter of manager_suggests_plan the plan holds no
\* Backend Developer item with empty tools, every other item is kept in its
\* original relative order, and exactly one synthesized QA item is appended
\* as the last item if a UI Developer or Backend Developer item remains and
\* no QA / Testing Engineer item exists; otherwise nothing is appended.
C9_PolicyFilter ==
    an_pc \in {"enforce", "shown"} =>
        LET kept == NotEmptyBackend(normalized_plan.v)
            out == raw_plan.v
            dev == \E k \in 1..Len(kept) :
                      IsAgent(kept[k], "UI Developer") \/ IsAgent(kept[k], "Backend Developer")
            qa == \E k \in 1..Len(kept) : IsAgent(kept[k], "QA / Testing Engineer")
        IN  /\ \A k \in 1..Len(out) :
                 ~(IsAgent(out[k], "Backend Developer") /\ ~Truthy(out[k].v[Str("tools")]))
            /\ Len(out) >= Len(kept)
            /\ SubSeq(out, 1, Len(kept)) = kept
            /\ IF dev /\ ~qa
               THEN /\ Len(out) = Len(kept) + 1
                    /\ IsAgent(out[Len(out)], "QA / Testing Engineer")
                    /\ out[Len(out)].v[Str("tools")] =
                          StrList(<<"Jest", "Pytest", "xUnit", "JUnit">>)
               ELSE Len(out) = Len(kept)

\* C9 witness: a Backend Developer item with empty tools was dropped, a UI
\* Developer item remains, and the QA item was appended last
C9_BackendDroppedQAAppended ==
    /\ an_pc = "enforce"
    /\ Len(normalized_plan.v) = 2
    /\ \E k \in 1..2 : /\ IsAgent(normalized_plan.v[k], "Backend Developer")
                       /\ normalized_plan.v[k].v[Str("tools")] = List(<<>>)
    /\ Len(raw_plan.v) = 2
    /\ IsAgent(raw_plan.v[1], "UI Developer")
    /\ raw_plan.v[2] = QAItem

\* C14 as stated: after enforce_stack_consistency each detected label is an
\* element of the tools of at least one item of the plan, also when the plan
\* holds no architecture item.
C14_LabelInSomeItem ==
    an_pc = "shown" =>
        \A l \in Detected(user_prompt) :
            \E k \in 1..Len(session_plan.v) :
                /\ IsList(ToolsOf(session_plan, k))
                /\ l \in Range(ToolsOf(session_plan, k).v)

\* C14 witness: a label is detected, the plan has items but no architecture
\* item, and the enforced plan is the plan as it was, the label in no tools
C14_NoArchitectureItem ==
    /\ an_pc = "shown"
    /\ frontend_stack(user_prompt) = Str("React.js")
    /\ Len(session_plan.v) > 0
    /\ Architects(session_plan) = {}
    /\ session_plan = raw_plan
    /\ \A k \in 1..Len(session_plan.v) :
         Str("React.js") \notin Range(ToolsOf(session_plan, k).v)

\* the number of entries enforcement put in front of the tools of item k
Added(k) ==
    Len(Elements(ToolsOf(session_plan, k))) - Len(Elements(ToolsOf(raw_plan, k)))

Filters(p) == AppendQA(DropBackend(p))

\* C16 as stated: the backend-drop and QA-append filters are applied only
\* after enforce_stack_consistency has been applied, so when a filter is
\* about to run the enforced plan exists.
C16_FiltersAfterEnforcement ==
    an_pc \in {"drop", "qa"} => session_plan # None

\* C16, amended: the stages run in the order recovery, normalization, policy
\* filters, enforcement: when enforce_stack_consistency is about to run the
\* plan is the filtered normalized plan and no enforced plan exists yet; as
\* enforcement changes architecture items only and the filters read the
\* other items only, the plan stored equals the filters applied to the
\* enforced normalized plan.
C16_FiltersBeforeEnforcement ==
    /\ an_pc \in {"kickoff", "parse", "normalize", "drop", "qa", "enforce", "raised"} =>
         session_plan = None
    /\ an_pc \in {"kickoff", "parse", "normalize"} => raw_plan = None
    /\ an_pc \in {"kickoff", "parse"} => normalized_plan = None
    /\ an_pc = "enforce" => raw_plan = Filters(normalized_plan)
    /\ an_pc = "shown" =>
         /\ session_plan = enforce_stack_consistency(user_prompt, Filters(normalized_plan))
         /\ session_plan = Filters(enforce_stack_consistency(user_prompt, normalized_plan))

\* C16 witness: a plan whose Backend Developer item was dropped and whose
\* architecture item was enforced afterwards
C16_DroppedThenEnforced ==
    /\ an_pc = "shown"
    /\ Len(normalized_plan.v) = 2
    /\ Len(session_plan.v) = 1
    /\ Architects(session_plan) = {1}
    /\ session_plan.v[1] # normalized_plan.v[1]

(* ------------------------------------------------------------------ *)
(* Role Registry: dynamic_agents, get_or_create_agent                 *)
(* (autonomous_app.py)                                                *)
(* ------------------------------------------------------------------ *)

\* the most Agent objects a run creates
MaxAgents == 4

\* the Agent constructed at module level
manager ==
    [role |-> "Project Manager",
     goal |-> "Understand user request, decide what agents are needed, and dynamically create a project plan.",
     backstory |-> "You are the project manager.\nYou analyze the user request, decide which worker agents are required,\nand suggest tools, libraries, and frameworks each agent will use.\nYou can delegate and recursively assign tasks to other agents.\n",
     allow_delegation |-> TRUE]

\* the role names, goals and backstories callers pass
RoleNames == {"Project Manager", "UI Developer", "ui developer"}

GoalHints == {"", "Use React to build the page"}

BackstoryHints == {"", "You are the UI Developer."}

\* every role counts as new
NeverRegistered(registry, role) == FALSE

\* role in dynamic_agents
Registered(registry, role) == role \in DOMAIN registry

\* Agent(role=role, goal=goal or ..., backstory=backstory or ..., ...)
NewAgent(role, goal, backstory, allow_delegation) ==
    [role |-> role,
     goal |-> IF goal # "" THEN goal
              ELSE "Fulfill the responsibilities of a " \o role \o ".",
     backstory |-> IF backstory # "" THEN backstory
                   ELSE "You are a skilled " \o role \o " who can perform tasks autonomously.",
     allow_delegation |-> allow_delegation]

\* dynamic_agents = {"Project Manager": manager}
RegistryInit ==
    /\ heap = <<manager>>
    /\ dynamic_agents = ("Project Manager" :> 1)
    /\ last_call = None
    /\ first_seen = <<>>
    /\ RecoveryOff /\ NormalizerOff /\ AnalyzeOff /\ SessionOff /\ RendererOff

\* get_or_create_agent(role, goal, backstory, allow_delegation)
GetOrCreateAgent ==
    \E role \in RoleNames, goal \in GoalHints, backstory \in BackstoryHints,
       allow_delegation \in BOOLEAN :
        LET known == Registered(dynamic_agents, role)
            ref == IF known THEN dynamic_agents[role] ELSE Len(heap) + 1
        IN  /\ known \/ Len(heap) < MaxAgents
            /\ heap' = IF known THEN heap
                       ELSE Append(heap, NewAgent(role, goal, backstory, allow_delegation))
            /\ dynamic_agents' = IF known THEN dynamic_agents
                                 ELSE Put(dynamic_agents, role, ref)
            /\ last_call' = [role |-> role, goal |-> goal, backstory |-> backstory,
                             allow_delegation |-> allow_delegation, returned |-> ref]
            /\ first_seen' = IF role \in DOMAIN first_seen THEN first_seen
                             ELSE Put(first_seen, role, [ref |-> ref, agent |-> heap'[ref]])
            /\ UNCHANGED <<recVars, normVars, anaVars, sesVars, rendVars>>

RegistryNext == GetOrCreateAgent

SpecRegistry == RegistryInit /\ [][RegistryNext]_vars

(* ------------------------------------------------------------------ *)
(* Role Registry: properties                                          *)
(* ------------------------------------------------------------------ *)

ModuleAgents ==
    [manager |-> "Project Manager", architect_agent |-> "System Architect",
     ui_agent |-> "UI Developer", backend_agent |-> "Backend Developer",
     testing_agent |-> "QA / Testing Engineer"]

\* Task(description=..., expected_output=..., agent=...)
Task(description, expected_output, agent) ==
    [description |-> description, expected_output |-> expected_output, agent |-> agent]

\* ", ".join(item["tools"]) if item["tools"] else default
TechHint(tools, default) ==
    IF Truthy(tools)
    THEN Join([k \in 1..Len(Elements(tools)) |-> Elements(tools)[k].v], ", ")
    ELSE default

\* the f-string blocks of DevHero_App.py behind the task text (the
\* indentation of their lines and the warning sign are left out)
ArchitectBlock ==
    "\n\nIMPORTANT:\nYou MUST output:\n1. A Mermaid diagram showing system architecture (frontend, backend, database, integrations).\n2. A clear explanation of the chosen tech stack (frontend framework, backend framework, database, hosting/infrastructure).\n"

UIBlock(tech_hint) ==
    "\n\nIMPORTANT:\nYou MUST output:\n1. A complete project folder structure (tree view).\n2. File-by-file code inside fenced code blocks with correct paths.\n3. Instructions for installing dependencies and running the project locally.\n\nThe frontend must use: "
       \o tech_hint \o ".\n"

BackendBlock(tech_hint) ==
    "\n\nIMPORTANT:\nYou MUST output:\n1. A complete project folder structure (tree view).\n2. File-by-file code inside fenced code blocks with correct paths.\n3. Configuration files (application.properties, package.json, etc.).\n4. Instructions for installing dependencies, configuring environment, and running locally.\n\nThe backend must use: "
       \o tech_hint \o ".\n"

QABlock(tools) ==
    "\n\nIMPORTANT:\nYou MUST output:\n1. A folder structure for tests.\n2. At least one test file for frontend or backend (depending on requested stack).\n3. Instructions for running the tests.\n\nFramework hint: "
       \o TechHint(tools, "") \o ".\n"

\* the Task the if/elif chain of DevHero_App.py appends for one item, as a
\* sequence of one, or the empty sequence where no branch matches
DevHeroTasks(item) ==
    LET role == item.v[Str("agent")]
        task == PyStr(item.v[Str("task")])
        tools == item.v[Str("tools")]
    IN  CASE role = Str("System Architect") ->
               <<Task(task \o ArchitectBlock,
                      "Architecture design with a Mermaid diagram and chosen tech stack.",
                      "architect_agent")>>
          [] role = Str("UI Developer") ->
               LET tech_hint == TechHint(tools, "a suitable frontend framework") IN
               <<Task(task \o UIBlock(tech_hint),
                      "Frontend project (" \o tech_hint
                         \o ") including structure, code, and run guide.",
                      "ui_agent")>>
          [] role = Str("Backend Developer") ->
               LET tech_hint == TechHint(tools, "a suitable backend framework") IN
               <<Task(task \o BackendBlock(tech_hint),
                      "Backend project (" \o tech_hint
                         \o ") including structure, code, configs, and run guide.",
                      "backend_agent")>>
          [] role = Str("QA / Testing Engineer") ->
               <<Task(task \o QABlock(tools),
                      "Automated test cases, folder structure, and run instructions.",
                      "testing_agent")>>
          [] OTHER -> <<>>

\* the same chain in app.py: three branches, shorter texts
AppTasks(item) ==
    LET role == item.v[Str("agent")]
        task == PyStr(item.v[Str("task")])
        tools == item.v[Str("tools")]
    IN  CASE role = Str("System Architect") ->
               <<Task(item.v[Str("task")].v,
                      "Architecture design with diagrams and chosen tech stack.",
                      "architect_agent")>>
          [] role = Str("UI Developer") ->
               LET tech_hint == TechHint(tools, "a suitable frontend framework") IN
               <<Task(task \o "\n\nIMPORTANT: The frontend must be implemented using "
                         \o tech_hint \o ".\n",
                      "Frontend code (" \o tech_hint \o ") implementing the requested UI.",
                      "ui_agent")>>
          [] role = Str("Backend Developer") ->
               LET tech_hint == TechHint(tools, "a suitable backend framework") IN
               <<Task(task \o "\n\nIMPORTANT: The backend must be implemented using "
                         \o tech_hint \o ".\n",
                      "Backend code (" \o tech_hint \o ") implementing the requested logic.",
                      "backend_agent")>>
          [] OTHER -> <<>>

\* assign_agents_from_plan(plan) of DevHero_App.py or app.py
RECURSIVE assign_agents_from_plan(_, _)
assign_agents_from_plan(variant, p) ==
    IF p.v = <<>> THEN <<>>
    ELSE assign_agents_from_plan(variant, List(SubSeq(p.v, 1, Len(p.v) - 1)))
           \o (IF variant = "DevHero" THEN DevHeroTasks(p.v[Len(p.v)])
               ELSE AppTasks(p.v[Len(p.v)]))

\* get_or_create_agent(role, goal, backstory, allow_delegation) on the
\* registry reg and the objects hp: the reference returned and both after
\* the call
get_or_create_agent(reg, hp, role, goal, backstory, allow_delegation) ==
    IF Registered(reg, role)
    THEN [ref |-> reg[role], dynamic_agents |-> reg, heap |-> hp]
    ELSE [ref |-> Len(hp) + 1,
          dynamic_agents |-> Put(reg, role, Len(hp) + 1),
          heap |-> Append(hp, NewAgent(role, goal, backstory, allow_delegation))]

\* if isinstance(tools, str): tools = [tools]
CoerceTools(tools) == IF tools.t = "str" THEN List(<<tools>>) ELSE tools

\* the loop body of build_tasks_from_plan for one item: the arguments it
\* passes to get_or_create_agent and the Task it appends, given the
\* reference the call returned
AutoCall(item) ==
    LET role == item.v[Str("agent")].v
        task_desc == PyStr(item.v[Str("task")])
        tools == CoerceTools(Get(item.v, "tools", List(<<>>)))
    IN  [role |-> role,
         goal |-> IF Truthy(tools)
                  THEN "Use " \o TechHint(tools, "") \o " to " \o task_desc
                  ELSE task_desc,
         backstory |-> "You are the " \o role \o ". You specialize in using "
                          \o TechHint(tools, "") \o ".",
         allow_delegation |-> role = "Project Manager"]

AutoTask(item, ref) ==
    LET role == item.v[Str("agent")].v
        task_desc == PyStr(item.v[Str("task")])
        tools == CoerceTools(Get(item.v, "tools", List(<<>>)))
        plan_notes == PyStr(Get(item.v, "plan", Str("")))
    IN  Task(task_desc \o "\n\nTools to use: " \o TechHint(tools, "any suitable tools")
                \o ".\nPlan notes: " \o plan_notes \o "\n",
             "Deliverables for: " \o role,
             ref)

\* build_tasks_from_plan(plan) from the registry reg and the objects hp:
\* the tasks, the registry and the objects after the loop, and the role
\* names passed to get_or_create_agent, in order
RECURSIVE build_tasks_from_plan(_, _, _)
build_tasks_from_plan(p, reg, hp) ==
    IF p.v = <<>>
    THEN [tasks |-> <<>>, dynamic_agents |-> reg, heap |-> hp, resolved |-> <<>>]
    ELSE LET before == build_tasks_from_plan(List(SubSeq(p.v, 1, Len(p.v) - 1)), reg, hp)
             item == p.v[Len(p.v)]
             call == AutoCall(item)
             got == get_or_create_agent(before.dynamic_agents, before.heap, call.role,
                                        call.goal, call.backstory, call.allow_delegation)
         IN  [tasks |-> Append(before.tasks, AutoTask(item, got.ref)),
              dynamic_agents |-> got.dynamic_agents,
              heap |-> got.heap,
              resolved |-> Append(before.resolved, call.role)]

(* ------------------------------------------------------------------ *)
(* Output Renderer: enforce_output_consistency (DevHero_App.py),      *)
(* render_agent_output (all three files)                              *)
(* ------------------------------------------------------------------ *)

\* the regular expression's \b between index i - 1 and index i of s
Boundary(s, i) == IsWord(Ch(s, i - 1)) # IsWord(Ch(s, i))

\* p occurs in s at index i, letter case ignored (flags=re.I)
AtI(s, i, p) ==
    /\ i >= 1 /\ i + Len(p) - 1 <= Len(s)
    /\ Lower(SubSeq(s, i, i + Len(p) - 1)) = Lower(p)

\* the index behind the first of the literals alts, in their order, that
\* occurs in s at index i with a \b behind it; 0 if none does
FirstEnd(s, i, alts, ignore_case) ==
    LET hits == {k \in 1..Len(alts) :
                    /\ IF ignore_case THEN AtI(s, i, alts[k]) ELSE At(s, i, alts[k])
                    /\ Boundary(s, i + Len(alts[k]))}
    IN  IF hits = {} THEN 0
        ELSE i + Len(alts[CHOOSE k \in hits : \A h \in hits : k <= h])

\* the number of consecutive occurrences of .js in s from index i on
RECURSIVE Reps(_, _)
Reps(s, i) == IF AtI(s, i, ".js") THEN 1 + Reps(s, i + 3) ELSE 0

\* the index behind  \s*/\s*Express  matched at index i, 0 if it fails
SlashExpressEnd(s, i) ==
    LET j == SkipWs(s, i)
        k == SkipWs(s, j + 1)
    IN  IF Ch(s, j) = "/" /\ AtI(s, k, "Express") THEN k + Len("Express") ELSE 0

\* the match of one of the patterns of enforce_output_consistency at index i
\* of s: the index behind it (0 for no match) and its replacement
\*   react   \bReact(\.js){1,}\b                                   re.I
\*   dotnet  \b(Node\.js|Express(\.js)?|Spring Boot|Django|FastAPI)\b   re.I
\*   other   \b(ASP\.NET Core|Spring Boot|Django|FastAPI)\b        re.I
\*   node    \bNode(\.js)?(\s*/\s*Express)?\b                      re.I
\*   dup     \b(ASP\.NET Core|React\.js)\s+with\s+\1\b
MatchAt(pat, s, i) ==
    LET no == [end |-> 0, repl |-> ""] IN
    IF ~Boundary(s, i) THEN no
    ELSE CASE pat = "react" ->
                LET ends == {i + 5 + 3 * r : r \in 1..Reps(s, i + 5)}
                    ok == {e \in ends : Boundary(s, e)}
                IN  IF ~AtI(s, i, "React") \/ ok = {} THEN no
                    ELSE [end |-> CHOOSE e \in ok : \A h \in ok : e >= h,
                          repl |-> "React.js"]
           [] pat = "dotnet" ->
                [end |-> FirstEnd(s, i, <<"Node.js", "Express.js", "Express", "Spring Boot",
                                          "Django", "FastAPI">>, TRUE),
                 repl |-> "ASP.NET Core"]
           [] pat = "other" ->
                [end |-> FirstEnd(s, i, <<"ASP.NET Core", "Spring Boot", "Django",
                                          "FastAPI">>, TRUE),
                 repl |-> "Node.js"]
           [] pat = "node" ->
                LET js == IF AtI(s, i + 4, ".js") THEN <<i + 7>> ELSE <<>>
                    stems == js \o <<i + 4>>
                    tries == [k \in 1..(2 * Len(stems)) |->
                                 IF k % 2 = 1 THEN SlashExpressEnd(s, stems[(k + 1) \div 2])
                                 ELSE stems[k \div 2]]
                    ok == {k \in 1..Len(tries) : tries[k] # 0 /\ Boundary(s, tries[k])}
                IN  IF ~AtI(s, i, "Node") \/ ok = {} THEN no
                    ELSE [end |-> tries[CHOOSE k \in ok : \A h \in ok : k <= h],
                          repl |-> "Node.js / Express"]
           [] pat = "dup" ->
                LET hits == {a \in {"ASP.NET Core", "React.js"} :
                                LET j == i + Len(a)
                                    w == SkipWs(s, j)
                                    x == SkipWs(s, w + 4)
                                IN  /\ At(s, i, a) /\ w > j /\ At(s, w, "with")
                                    /\ x > w + 4 /\ At(s, x, a)
                                    /\ Boundary(s, x + Len(a))}
                IN  IF hits = {} THEN no
                    ELSE LET a == CHOOSE a \in hits : TRUE IN
                         [end |-> SkipWs(s, SkipWs(s, i + Len(a)) + 4) + Len(a),
                          repl |-> a]

\* re.sub(pattern, replacement, s), from index i on
RECURSIVE ReSub(_, _, _)
ReSub(pat, s, i) ==
    IF i > Len(s) THEN ""
    ELSE LET m == MatchAt(pat, s, i) IN
         IF m.end # 0 THEN m.repl \o ReSub(pat, s, m.end)
         ELSE Ch(s, i) \o ReSub(pat, s, i + 1)

\* the re.sub calls on the patterns pats, one after the other
RECURSIVE SubEach(_, _)
SubEach(pats, s) ==
    IF pats = <<>> THEN s ELSE SubEach(Tail(pats), ReSub(Head(pats), s, 1))

\* enforce_output_consistency(agent_name, raw_text, user_request)
enforce_output_consistency(agent_name, text, user_request) ==
    LET req_lower == Lower(user_request)
        wants_dotnet == \E k \in {".net", "dotnet", "asp.net"} : Contains(req_lower, k)
        wants_node == Contains(req_lower, "node")
        wants_react == Contains(req_lower, "react")
        frontend == IF wants_react THEN <<"react">> ELSE <<>>
        backend == IF wants_dotnet THEN <<"dotnet">>
                   ELSE IF wants_node THEN <<"other", "node">>
                   ELSE <<>>
    IN  IF agent_name # "System Architect" THEN text
        ELSE SubEach(frontend \o backend \o <<"dup">>, text)

\* re.findall of the code pattern (three backticks, an optional run of word
\* characters, a line break, a lazy group, three backticks; DOTALL) in s
\* from index i on: the (lang, code) pairs
RECURSIVE FindAllCode(_, _)
FindAllCode(s, i) ==
    LET o == Find(s, Fence, i)
        w == WordEnd(s, o + Len(Fence))
        c == Find(s, Fence, w + 1)
    IN  IF o = 0 THEN <<>>
        ELSE IF Ch(s, w) # "\n" THEN FindAllCode(s, o + 1)
        ELSE IF c = 0 THEN <<>>
        ELSE <<[lang |-> SubSeq(s, o + Len(Fence), w - 1), code |-> SubSeq(s, w + 1, c - 1)]>>
               \o FindAllCode(s, c + Len(Fence))

\* re.sub of the fence pattern (three backticks, a lazy group, three
\* backticks; DOTALL) by the empty string, in s from index i on
RECURSIVE SubFences(_, _)
SubFences(s, i) ==
    LET o == Find(s, Fence, i)
        c == Find(s, Fence, o + Len(Fence))
    IN  IF o = 0 \/ c = 0 THEN From(s, i)
        ELSE SubSeq(s, i, o - 1) \o SubFences(s, c + Len(Fence))

\* the calls on streamlit
Info(text) == [call |-> "info", text |-> text, language |-> ""]

Markdown(text) == [call |-> "markdown", text |-> text, language |-> ""]

Code(text, language) == [call |-> "code", text |-> text, language |-> language]

\* the text is taken from raw whatever it holds
RawOnly(o) == o.raw

\* agent_output.raw if agent_output.raw else agent_output.summary
RawOrSummary(o) == IF Truthy(o.raw) THEN o.raw ELSE o.summary

\* render_agent_output(agent_output) of the given file, request being
\* st.session_state.get("last_user_request", ""): the calls it makes (text
\* is the local variable raw_text)
render_agent_output(variant, o, request) ==
    LET Blocks(text, code_blocks, text_without_code) ==
            IF code_blocks # <<>>
            THEN (IF text_without_code # "" THEN <<Markdown(text_without_code)>> ELSE <<>>)
                   \o [k \in 1..Len(code_blocks) |->
                         Code(Strip(code_blocks[k].code),
                              IF code_blocks[k].lang # "" THEN Lower(code_blocks[k].lang)
                              ELSE "text")]
            ELSE <<Markdown(text)>>
        Display(text) == Blocks(text, FindAllCode(text, 1), Strip(SubFences(text, 1)))
        Chosen(chosen) ==
            IF ~Truthy(chosen) THEN <<Info("No output generated.")>>
            ELSE Display(IF variant = "DevHero"
                         THEN enforce_output_consistency(o.agent, chosen.v, request)
                         ELSE chosen.v)
    IN  Chosen(RawOrSummary(o))

\* the TaskOutput objects given to the renderer: raw and summary absent,
\* empty, blank, plain, with stack names the architect's text is corrected
\* for, and with fenced code
RenderOutputs ==
    [agent : {"System Architect", "UI Developer"},
     raw : {None, Str(""), Str("Done"), Str(" "), Str("Use React.js.js with Node.js"),
            Str("Intro\n^^^python\nprint(1)\n^^^"), Str("^^^\n^^^"), Str("^^^js x^^^ y")},
     summary : {None, Str(""), Str("Summary"), Str("^^^\ns^^^")}]

RendererInit ==
    /\ render_script \in Variants
    /\ render_request \in {"", Scenario, "Build a React app with Node"}
    /\ agent_output \in RenderOutputs
    /\ calls = None
    /\ RecoveryOff /\ NormalizerOff /\ AnalyzeOff /\ RegistryOff /\ SessionOff

\* render_agent_output(t)
Render ==
    /\ calls = None
    /\ calls' = List(render_agent_output(render_script, agent_output, render_request))
    /\ UNCHANGED <<render_script, render_request, agent_output>>
    /\ UNCHANGED <<recVars, normVars, anaVars, regVars, sesVars>>

RendererNext == Render

SpecRenderer == RendererInit /\ [][RendererNext]_vars

(* ------------------------------------------------------------------ *)
(* Output Renderer: properties                                        *)
(* ------------------------------------------------------------------ *)

\* C13: render_agent_output shows raw when raw is not empty, summary when
\* raw is empty and summary is not, and makes the one st.info call that
\* says no output was generated, and no other call, when both are empty; in
\* the other cases it makes at least one st.markdown or st.code call and no
\* st.info call: a text without a fence is shown whole by one st.markdown
\* call (after the stack corrections, for the architect in DevHero_App.py),
\* and every code fragment shown is part of the text.
C13_RawSummaryOrSignal ==
    calls # None =>
        LET o == agent_output
            corrected == render_script = "DevHero" /\ o.agent = "System Architect"
        IN  IF ~Truthy(o.raw) /\ ~Truthy(o.summary)
            THEN calls.v = <<Info("No output generated.")>>
            ELSE LET source == IF Truthy(o.raw) THEN o.raw.v ELSE o.summary.v IN
                 /\ calls.v # <<>>
                 /\ \A k \in 1..Len(calls.v) : calls.v[k].call \in {"markdown", "code"}
                 /\ ~Contains(source, Fence) =>
                      /\ Len(calls.v) = 1 /\ calls.v[1].call = "markdown"
                      /\ calls.v[1].text # ""
                      /\ ~corrected => calls.v[1].text = source
                 /\ ~corrected =>
                      \A k \in 1..Len(calls.v) :
                         calls.v[k].call = "code" => Contains(source, calls.v[k].text)

\* C13 witness: raw is empty and summary is not, and summary was shown
C13_SummaryShown ==
    /\ calls = List(<<Markdown("Summary")>>)
    /\ agent_output.raw = Str("")
    /\ agent_output.summary = Str("Summary")

(* ------------------------------------------------------------------ *)
(* One session of a script: the Analyze Request and Run Agents        *)
(* handlers, run_agents, run_dynamic_flow.  Streamlit executes the    *)
(* whole script for every click, so the module-level statements run   *)
(* again before the handler; st.session_state is what persists.       *)
(* ------------------------------------------------------------------ *)

\* the most button clicks of a session
MaxClicks == 3

\* what the text area holds at a click
SessionRequests == {Scenario, "  "}

\* raw_result.raw of the manager's crew: a fenced plan of an architect and a
\* UI developer, prose, and the empty list
SessionResponses ==
    {Fenced("tagged",
            Dumps(<<[agent |-> "System Architect", task |-> "Design",
                     tools |-> <<"React", "Node.js">>, plan |-> "Use REST"],
                    [agent |-> "UI Developer", task |-> "Build the page",
                     tools |-> <<"Angular">>, plan |-> "Forms"]>>)),
     "I cannot help with that.",
     "[]"}

\* manager_suggests_plan(user_request) of the given file, for the response
\* text the manager's crew returned
manager_suggests_plan(variant, text, has_json5) ==
    LET normalized == enforce_plan_structure(variant,
                                             parse_json_response(variant, text, has_json5))
    IN  IF variant = "DevHero" THEN AppendQA(DropBackend(normalized)) ELSE normalized

\* the role of the agent a task is bound to: a module-level variable of
\* DevHero_App.py and app.py, a reference to an object of autonomous_app.py
RoleOf(variant, hp, agent) ==
    IF variant = "autonomous" THEN hp[agent].role ELSE ModuleAgents[agent]

\* what one unit's TaskOutput carries: a text, or no text but a summary
UnitTexts ==
    {[raw |-> Str("Done"), summary |-> Str("Summary")],
     [raw |-> Str(""), summary |-> Str("Summary")]}

\* Crew(agents=..., tasks=tasks, process="sequential").kickoff(): the engine
\* returns an object whose tasks_output has one TaskOutput per task, or the
\* call of the model for unit at fails and its exception leaves kickoff
\* (at = 0: the engine rejects an empty task list)
EngineOutcomes(variant, hp, tasks) ==
    {[kind |-> "output", at |-> 0,
      tasks_output |-> [k \in 1..Len(tasks) |->
                           [agent |-> RoleOf(variant, hp, tasks[k].agent),
                            raw |-> u[k].raw, summary |-> u[k].summary]]]
        : u \in [1..Len(tasks) -> UnitTexts]}
      \cup {[kind |-> "raised", at |-> i, tasks_output |-> <<>>]
              : i \in (IF tasks = <<>> THEN {0} ELSE 1..Len(tasks))}

\* the list selected_agents of run_agents in DevHero_App.py
RECURSIVE selected_agents(_)
selected_agents(p) ==
    IF p.v = <<>> THEN <<"manager">>
    ELSE LET role == p.v[Len(p.v)].v[Str("agent")]
             rest == selected_agents(List(SubSeq(p.v, 1, Len(p.v) - 1)))
         IN  CASE role = Str("System Architect") -> Append(rest, "architect_agent")
               [] role = Str("UI Developer") -> Append(rest, "ui_agent")
               [] role = Str("Backend Developer") -> Append(rest, "backend_agent")
               [] OTHER -> rest

\* [a for a in dynamic_agents.values() if isinstance(a, Agent)]: the
\* references in insertion order, which is the order of creation
RECURSIVE AgentValues(_, _)
AgentValues(reg, n) ==
    IF n = 0 THEN <<>>
    ELSE AgentValues(reg, n - 1)
           \o (IF \E r \in DOMAIN reg : reg[r] = n THEN <<n>> ELSE <<>>)

Sentinel == "No relevant agents found for this request."

\* what a handler did: its outcome, the plan it showed or executed, the
\* tasks and agents given to the crew, whether kickoff of that crew was
\* called, what it returned, and the calls of render_agent_output per result
Handled(handler, outcome, p, tasks, agents, engine, res, rendered) ==
    [handler |-> handler, outcome |-> outcome, plan |-> p, tasks |-> tasks,
     agents |-> agents, engine |-> engine, result |-> res, rendered |-> rendered]

NoResult == [kind |-> "none", at |-> 0, tasks_output |-> <<>>]

\* the module-level statements of one execution of the script: autonomous_app.py
\* constructs manager and assigns dynamic_agents = {"Project Manager": manager};
\* the other two files have no registry
ModuleLevel(variant, hp) ==
    IF variant = "autonomous"
    THEN [dynamic_agents |-> ("Project Manager" :> (Len(hp) + 1)),
          heap |-> Append(hp, manager)]
    ELSE [dynamic_agents |-> <<>>, heap |-> <<>>]

\* the first resolution of every role of the sequence roles, added to seen
RECURSIVE Remember(_, _, _, _)
Remember(seen, roles, reg, hp) ==
    IF roles = <<>> THEN seen
    ELSE LET before == Remember(seen, SubSeq(roles, 1, Len(roles) - 1), reg, hp)
             role == roles[Len(roles)]
         IN  IF role \in DOMAIN before THEN before
             ELSE Put(before, role, [ref |-> reg[role], agent |-> hp[reg[role]]])

\* for idx, t in enumerate(result.tasks_output, start=1): render_agent_output(t)
RenderAll(variant, tasks_output, request) ==
    [k \in 1..Len(tasks_output) |-> render_agent_output(variant, tasks_output[k], request)]

\* st.session_state.get("last_user_request", "")
LastUserRequest(last) == IF last = None THEN "" ELSE last.v

\* the page is loaded: the script has executed once, no button clicked
SessionInit ==
    /\ script \in Variants
    /\ typed = "" /\ st_plan = None /\ st_last = None /\ clicks = 0 /\ ui = None
    /\ dynamic_agents = ModuleLevel(script, <<>>).dynamic_agents
    /\ heap = ModuleLevel(script, <<>>).heap
    /\ last_call = None /\ first_seen = <<>>
    /\ RecoveryOff /\ NormalizerOff /\ AnalyzeOff /\ RendererOff

\* crew.kickoff() of the manager's crew: a response text in raw_result.raw,
\* or the call raises; and the handler that never calls it
NotAsked == [kind |-> "none", raw |-> ""]

ManagerOutcomes ==
    {[kind |-> "text", raw |-> r] : r \in SessionResponses}
      \cup {[kind |-> "raised", raw |-> ""]}

\* if st.button("Analyze Request"): ... with the text area holding
\* user_request, the manager's crew answering response, and suggested being
\* what manager_suggests_plan returns for that response
AnalyzeRequest(user_request, response, suggested) ==
    /\ clicks < MaxClicks
    /\ clicks' = clicks + 1
    /\ typed' = user_request
    /\ \E m \in {ModuleLevel(script, heap)} :
            heap' = m.heap /\ dynamic_agents' = m.dynamic_agents
    /\ UNCHANGED <<last_call, first_seen>>
    /\ IF Strip(user_request) = ""
       THEN /\ response = NotAsked
            /\ ui' = Handled("analyze", "warned", None, <<>>, <<>>, FALSE, NoResult, <<>>)
            /\ UNCHANGED <<st_plan, st_last>>
       ELSE /\ response \in ManagerOutcomes
            /\ st_last' = IF script = "DevHero" THEN Str(user_request) ELSE st_last
            /\ IF \/ response.kind = "raised"
                  \/ script = "DevHero" /\ EnforceRaises(user_request, suggested)
               THEN /\ ui' = Handled("analyze", "raised", None, <<>>, <<>>, FALSE,
                                     NoResult, <<>>)
                    /\ UNCHANGED st_plan
               ELSE /\ st_plan' = IF script = "DevHero"
                                  THEN enforce_stack_consistency(user_request, suggested)
                                  ELSE suggested
                    /\ ui' = Handled("analyze", "shown", st_plan', <<>>, <<>>,
                                     FALSE, NoResult, <<>>)
    /\ UNCHANGED <<script, recVars, normVars, anaVars, rendVars>>

\* the handler stopped before any crew of work units was built
Stopped(outcome, m) ==
    [outcome |-> outcome, plan |-> None, tasks |-> <<>>, agents |-> <<>>,
     engine |-> FALSE, result |-> NoResult,
     dynamic_agents |-> m.dynamic_agents, heap |-> m.heap, resolved |-> <<>>]

\* run_agents(plan) of DevHero_App.py and app.py
run_agents(p, m) ==
    LET agents == IF script = "DevHero" THEN selected_agents(p)
                  ELSE <<"manager", "architect_agent", "ui_agent", "backend_agent">>
        Ran(tasks) ==
            IF tasks = <<>>
            THEN {[Stopped("sentinel", m) EXCEPT
                      !.plan = p,
                      !.result = [kind |-> "text", at |-> 0, tasks_output |-> <<>>]]}
            ELSE {[outcome |-> o.kind, plan |-> p, tasks |-> tasks, agents |-> agents,
                   engine |-> TRUE, result |-> o,
                   dynamic_agents |-> m.dynamic_agents, heap |-> m.heap,
                   resolved |-> <<>>]
                     : o \in EngineOutcomes(script, m.heap, tasks)}
    IN  Ran(assign_agents_from_plan(script, p))

\* run_dynamic_flow(user_request), the manager's crew answering response, p
\* being what manager_suggests_plan returns for it, from the registry and
\* the objects the module-level statements left
run_dynamic_flow(response, p, m) ==
    IF response.kind = "raised"
    THEN {Stopped("raised", m)}
    ELSE LET Ran(built) ==
                 {[outcome |-> o.kind, plan |-> p, tasks |-> built.tasks,
                   agents |-> AgentValues(built.dynamic_agents, Len(built.heap)),
                   engine |-> TRUE, result |-> o,
                   dynamic_agents |-> built.dynamic_agents, heap |-> built.heap,
                   resolved |-> built.resolved]
                     : o \in EngineOutcomes(script, built.heap, built.tasks)}
         IN  Ran(build_tasks_from_plan(p, m.dynamic_agents, m.heap))

\* st.write(result) for the text run_agents returned, else one
\* render_agent_output per element of result.tasks_output
Shown(ran, request) ==
    IF ran.outcome = "sentinel" THEN <<<<Sentinel>>>>
    ELSE RenderAll(script, ran.result.tasks_output, request)

\* if st.button("Run Agents"): ... with the text area holding user_request;
\* autonomous_app.py asks the manager again, which answers response, and
\* suggested is what manager_suggests_plan returns for that response
RunAgents(user_request, response, suggested) ==
    /\ clicks < MaxClicks
    /\ clicks' = clicks + 1
    /\ typed' = user_request
    /\ response = NotAsked <=> (script # "autonomous" \/ st_plan = None \/ ~Truthy(st_plan))
    /\ \E m \in {ModuleLevel(script, heap)} :
       \E ran \in (IF st_plan = None \/ ~Truthy(st_plan) THEN {Stopped("warned", m)}
                   ELSE IF script = "autonomous"
                        THEN run_dynamic_flow(response, suggested, m)
                        ELSE run_agents(st_plan, m)) :
            /\ heap' = ran.heap
            /\ dynamic_agents' = ran.dynamic_agents
            /\ first_seen' = Remember(first_seen, ran.resolved, ran.dynamic_agents, ran.heap)
            /\ ui' = Handled("run", ran.outcome, ran.plan, ran.tasks, ran.agents,
                             ran.engine, ran.result,
                             Shown(ran, LastUserRequest(st_last)))
    /\ UNCHANGED <<script, st_plan, st_last, last_call, recVars, normVars, anaVars, rendVars>>

SessionNext ==
    \E user_request \in SessionRequests, response \in ManagerOutcomes \cup {NotAsked} :
        \E suggested \in {IF response.kind = "text"
                          THEN manager_suggests_plan(script, response.raw, json5)
                          ELSE None} :
            \/ AnalyzeRequest(user_request, response, suggested)
            \/ RunAgents(user_request, response, suggested)

SpecSession == SessionInit /\ [][SessionNext]_vars

(* ------------------------------------------------------------------ *)
(* Session: properties                                                *)
(* ------------------------------------------------------------------ *)

\* the last click was Run Agents and a plan got as far as the task builder
PlanBuilt == ui # None /\ ui.handler = "run" /\ ui.plan # None

\* the last click was Run Agents and kickoff of the work units' crew was called
EngineStarted == ui # None /\ ui.handler = "run" /\ ui.engine

\* C17: the builder makes one unit per plan item, in plan order, unit i bound
\* to the role item i names, and an item of no known role is built too.
C17_OneUnitPerItem ==
    PlanBuilt =>
        /\ Len(ui.tasks) = Len(ui.plan.v)
        /\ \A k \in 1..Len(ui.tasks) :
              RoleOf(script, heap, ui.tasks[k].agent) = ui.plan.v[k].v[Str("agent")].v

\* C17 witness: autonomous_app.py builds a generic unit for the Manager item
\* the recovery fallback made
C17_GenericUnitBuilt ==
    /\ script = "autonomous" /\ PlanBuilt
    /\ Len(ui.plan.v) = 1
    /\ ui.plan.v[1].v[Str("agent")] = Str("Manager")
    /\ Len(ui.tasks) = 1
    /\ heap[ui.tasks[1].agent].role = "Manager"
    /\ ui.tasks[1].expected_output = "Deliverables for: Manager"

\* C12: with no unit built from the plan the handler gets the sentinel text
\* and kickoff of the work units' crew is not called.
C12_EmptyUnitsSentinel ==
    (PlanBuilt /\ ui.tasks = <<>>) => (ui.outcome = "sentinel" /\ ~ui.engine)

\* C12 witness: app.py builds no unit from the fallback plan and shows the
\* sentinel text
C12_SentinelReturned ==
    /\ script = "app" /\ PlanBuilt
    /\ ui.plan.v # <<>> /\ ui.tasks = <<>>
    /\ ui.outcome = "sentinel" /\ ~ui.engine
    /\ ui.rendered = <<<<Sentinel>>>>

\* C19: kickoff of the work units' crew is never called for a plan of zero
\* items, whatever was clicked and whatever the manager answered.
C19_EmptyPlanNeverExecuted ==
    EngineStarted => ui.plan.v # <<>>

\* C19 witness: the stored plan is the empty list and Run Agents refuses
C19_EmptyStoredPlanRefused ==
    /\ st_plan = List(<<>>)
    /\ ui # None /\ ui.handler = "run" /\ ui.outcome = "warned" /\ ~ui.engine

\* C11: a run of n units ends with n results in the units' order, shown one
\* by one, a failing unit included.
C11_OneResultPerUnit ==
    EngineStarted =>
        /\ ui.outcome = "output"
        /\ Len(ui.result.tasks_output) = Len(ui.tasks)
        /\ Len(ui.rendered) = Len(ui.tasks)
        /\ \A k \in 1..Len(ui.tasks) :
              ui.result.tasks_output[k].agent = RoleOf(script, heap, ui.tasks[k].agent)

\* C11 witness: the first of two units fails and the handler ends with no
\* result at all
C11_FailureAbortsRun ==
    /\ EngineStarted
    /\ Len(ui.tasks) = 2
    /\ ui.outcome = "raised" /\ ui.result.at = 1
    /\ ui.result.tasks_output = <<>> /\ ui.rendered = <<>>

\* C20: the registry holds the manager and every role name resolved so far in
\* the session, each still bound to the instance its first resolution made.
C20_RegistryKeepsEveryRole ==
    script = "autonomous" =>
        /\ DOMAIN dynamic_agents = DOMAIN first_seen \cup {"Project Manager"}
        /\ \A role \in DOMAIN first_seen : dynamic_agents[role] = first_seen[role].ref

\* C20 witness: right after a build the registry holds the manager and the
\* two roles of the plan, each once
C20_RolesOfOneBuild ==
    /\ script = "autonomous" /\ PlanBuilt
    /\ DOMAIN dynamic_agents = {"Project Manager", "System Architect", "UI Developer"}
    /\ DOMAIN first_seen = {"System Architect", "UI Developer"}
    /\ \A role \in DOMAIN first_seen : dynamic_agents[role] = first_seen[role].ref

\* C21: every unit of a run is bound to an agent that is in the list of
\* agents given to the crew of that run, the QA unit included.
C21_UnitAgentsInCrew ==
    EngineStarted =>
        \A k \in 1..Len(ui.tasks) :
            \E j \in 1..Len(ui.agents) : ui.agents[j] = ui.tasks[k].agent

\* C21 witness: the crew of autonomous_app.py holds the agents of both units
\* of a two-item plan
C21_DynamicCrewHoldsUnitAgents ==
    /\ script = "autonomous" /\ EngineStarted
    /\ Len(ui.tasks) = 2
    /\ ui.tasks[1].agent # ui.tasks[2].agent
    /\ \A k \in 1..2 : \E j \in 1..Len(ui.agents) : ui.agents[j] = ui.tasks[k].agent

\* C22: the plan Run Agents hands to the task builder is the plan the session
\* holds, which only Analyze Request stores; no other plan is executed.
C22_RunsStoredPlan ==
    PlanBuilt => ui.plan = st_plan

\* C22 witness: DevHero_App.py executes the stored three-item plan
C22_StoredPlanExecuted ==
    /\ script = "DevHero" /\ EngineStarted
    /\ ui.plan = st_plan
    /\ Len(st_plan.v) = 3
    /\ ui.outcome = "output"

====
